---- MODULE Spec2Model ----
(***************************************************************************)
(* A model of gitshield's detection core: the line scanner of engine.py    *)
(* (scan_text and its helpers), the file scan, and scan_path of scanner.py *)
(* with its optional gitleaks run and the merge of the two result lists;   *)
(* the directory scan of engine.py (tree walk, .gitignore matching, staged *)
(* files) and filter_findings of config.py.                                *)
(*                                                                         *)
(* Specifications: SpecText (scan_text, scan_content), Spec (scan_path),   *)
(* SpecDir (scan_directory), SpecFile (scan_file), SpecMatch               *)
(* (_matches_gitignore) and SpecFilter (filter_findings).                  *)
(*                                                                         *)
(* Strings are sequences of one-character strings, so that len(), slicing, *)
(* concatenation, `in` and the character counts of entropy() are computed  *)
(* as Python computes them.  None is the empty tuple and a present         *)
(* Optional value x is <<x>>.  Entropy is kept in micro-bits.              *)
(*                                                                         *)
(* A line of text is a sequence of segments.  A segment with rule = 0 is   *)
(* plain text that no pattern of the registry matches; a segment with      *)
(* rule = p is an occurrence of pattern p: pre \o val \o post is the whole *)
(* match (group(0)), val the captured group(1).  regex.search is the       *)
(* leftmost occurrence of the pattern on the line.                         *)
(***************************************************************************)
EXTENDS Integers, Sequences, FiniteSets, TLC

VARIABLES
    op,        \* the operation called last, "none" before the call
    text,      \* scan_text: the lines of the text scanned
    filename,  \* scan_text: the logical file name
    offset,    \* scan_text: line_offset
    findings,  \* scan_text: the list returned
    world,     \* scan_path: the file system under the path and the gitleaks installation
    flags,     \* scan_path: [staged_only, no_git]
    outcome,   \* scan_path: [raised, native_ran, gitleaks_ran, value]
    call,      \* the arguments of a call of scan_directory, scan_file,
               \* _matches_gitignore or filter_findings
    ret        \* what that call returned, and for a scan the files it touched

vars == <<op, text, filename, offset, findings, world, flags, outcome, call, ret>>

----------------------------------------------------------------------------
(* Bounds of the model *)

MaxLines == 2
MaxOffset == 1
MaxItems == 2
MaxPatterns == 2
MaxFindings == 2
MaxCommands == 3
MaxRuns == 3

----------------------------------------------------------------------------
(* Strings *)

None == <<>>
Some(x) == <<x>>

Digit(d) == <<"0","1","2","3","4","5","6","7","8","9">>[d + 1]

RECURSIVE str(_)
\* str(n) of a non-negative int, as the f-string of engine.py formats line_number
str(n) == IF n < 10 THEN <<Digit(n)>> ELSE str(n \div 10) \o <<Digit(n % 10)>>

\* needle in hay
Contains(hay, needle) ==
    \E i \in 1..(Len(hay) - Len(needle) + 1) :
        SubSeq(hay, i, i + Len(needle) - 1) = needle

Colon == <<":">>
Ellipsis == <<".",".",".">>

----------------------------------------------------------------------------
(* patterns.py: entropy *)

\* round(c * log2(c) * 10^6) for c = 1..48
CLog2 == <<0, 2000000, 4754888, 8000000, 11609640, 15509775, 19651484, 24000000,
           28529325, 33219281, 38053748, 43019550, 48105716, 53302969, 58603359,
           64000000, 69486868, 75058650, 80710623, 86438562, 92238666, 98107496,
           104041925, 110039100, 116096405, 122211433, 128381963, 134605938,
           140881449, 147206718, 153580086, 160000000, 166465006, 172973737,
           179524906, 186117300, 192749775, 199421246, 206130687, 212877124,
           219659632, 226477332, 233329384, 240214991, 247133389, 254083850,
           261065676, 268078200>>

\* freq[ch] of entropy()
freq(data, ch) == Cardinality({i \in 1..Len(data) : data[i] = ch})

RECURSIVE SumCLog2(_, _)
SumCLog2(data, chars) ==
    IF chars = {} THEN 0
    ELSE LET ch == CHOOSE c \in chars : TRUE
         IN  CLog2[freq(data, ch)] + SumCLog2(data, chars \ {ch})

\* Shannon entropy in micro-bits: -sum p*log2(p) = (n*log2(n) - sum c*log2(c)) / n
entropy(data) ==
    IF data = <<>> THEN 0
    ELSE (CLog2[Len(data)]
            - SumCLog2(data, {data[i] : i \in 1..Len(data)})) \div Len(data)

ENTROPY_THRESHOLD == 4000000

----------------------------------------------------------------------------
(* patterns.py: the registry (three of its patterns, in registry order) *)

PATTERNS == <<
    [id |-> <<"a","w","s","-","a","c","c","e","s","s","-","k","e","y","-","i","d">>,
     severity |-> "critical", entropy_threshold |-> None],
    [id |-> <<"g","e","n","e","r","i","c","-","a","p","i","-","k","e","y">>,
     severity |-> "medium", entropy_threshold |-> Some(ENTROPY_THRESHOLD)],
    [id |-> <<"g","e","n","e","r","i","c","-","p","a","s","s","w","o","r","d">>,
     severity |-> "medium", entropy_threshold |-> Some(ENTROPY_THRESHOLD)] >>

----------------------------------------------------------------------------
(* engine.py: helpers of the line scanner *)

_IGNORE_MARKERS == {
    <<"#"," ","g","i","t","s","h","i","e","l","d",":","i","g","n","o","r","e">>,
    <<"/","/"," ","g","i","t","s","h","i","e","l","d",":","i","g","n","o","r","e">>,
    <<"-","-"," ","g","i","t","s","h","i","e","l","d",":","i","g","n","o","r","e">> }

_truncate_max_len == 20

_truncate(s) ==
    IF Len(s) <= _truncate_max_len THEN s
    ELSE SubSeq(s, 1, _truncate_max_len) \o Ellipsis

\* group(0) of an occurrence
Group0(seg) == seg.pre \o seg.val \o seg.post

RECURSIVE LineStr(_)
\* the characters of a line
LineStr(line) ==
    IF line = <<>> THEN <<>> ELSE Group0(Head(line)) \o LineStr(Tail(line))

\* A plausible bug: only the '#' marker is honoured.
HasIgnoreMarkerHashOnly(line) ==
    Contains(LineStr(line),
        <<"#"," ","g","i","t","s","h","i","e","l","d",":","i","g","n","o","r","e">>)

\* any(marker in line for marker in _IGNORE_MARKERS)
HasIgnoreMarker(line) ==
    \E marker \in _IGNORE_MARKERS : Contains(LineStr(line), marker)

\* The occurrences of pattern p on the line, as segment indices.
Occs(p, line) == {i \in 1..Len(line) : line[i].rule = p}

\* A plausible bug: the last match of the line (as a findall loop would end on).
searchLast(p, line) ==
    IF Occs(p, line) = {} THEN 0
    ELSE CHOOSE i \in Occs(p, line) : \A j \in Occs(p, line) : j <= i

\* pattern.regex.search(line): the leftmost match, 0 for None
search(p, line) ==
    IF Occs(p, line) = {} THEN 0
    ELSE CHOOSE i \in Occs(p, line) : \A j \in Occs(p, line) : i <= j

\* A plausible bug: a match at the threshold is dropped too.
PassesGateStrict(p, matched_text) ==
    \/ PATTERNS[p].entropy_threshold = None
    \/ ~(entropy(matched_text) <= PATTERNS[p].entropy_threshold[1])

\* the entropy gate: `if ent < pattern.entropy_threshold: continue`
PassesGate(p, matched_text) ==
    \/ PATTERNS[p].entropy_threshold = None
    \/ ~(entropy(matched_text) < PATTERNS[p].entropy_threshold[1])

\* the Finding scan_text appends for a match
NativeFinding(p, matched_text, file, line_number) ==
    [file        |-> file,
     line        |-> line_number,
     rule_id     |-> PATTERNS[p].id,
     secret      |-> _truncate(matched_text),
     fingerprint |-> file \o Colon \o PATTERNS[p].id \o Colon \o str(line_number),
     entropy     |-> entropy(matched_text),
     commit      |-> None,
     author      |-> None,
     severity    |-> PATTERNS[p].severity]

\* the body of `for pattern in PATTERNS` for one pattern: no or one finding
PatternFindings(p, line, file, line_number) ==
    LET m == search(p, line) IN
    IF m = 0 THEN <<>>
    ELSE LET matched_text == Group0(line[m]) IN
         IF ~PassesGate(p, matched_text) THEN <<>>
         ELSE <<NativeFinding(p, matched_text, file, line_number)>>

RECURSIVE LineFindings(_, _, _, _)
\* the findings of one line, patterns p..Len(PATTERNS) in registry order
LineFindings(p, line, file, line_number) ==
    IF p > Len(PATTERNS) THEN <<>>
    ELSE PatternFindings(p, line, file, line_number)
            \o LineFindings(p + 1, line, file, line_number)

RECURSIVE ScanLines(_, _, _, _)
\* the loop `for idx, line in enumerate(lines, start=1)` from idx on
ScanLines(lines, idx, file, line_offset) ==
    IF idx > Len(lines) THEN <<>>
    ELSE (IF HasIgnoreMarker(lines[idx]) THEN <<>>
          ELSE LineFindings(1, lines[idx], file, idx + line_offset))
            \o ScanLines(lines, idx + 1, file, line_offset)

\* A plausible bug: line_offset is not added to the line number.
scan_textNoOffset(lines, file, line_offset) == ScanLines(lines, 1, file, 0)

\* lines is text.splitlines()
scan_text(lines, file, line_offset) == ScanLines(lines, 1, file, line_offset)

scan_content(content, context) == scan_text(content, context, 0)

----------------------------------------------------------------------------
(* The lines the model scans.  Each was run through the registry of        *)
(* patterns.py: the occurrences written here are the first matches of the  *)
(* three modelled patterns, and no other pattern matches.                  *)

Txt(s) == [rule |-> 0, pre |-> s, val |-> <<>>, post |-> <<>>]
Occ(p, pre, val, post) == [rule |-> p, pre |-> pre, val |-> val, post |-> post]

\* Nothing secret here.
LPlain ==
  << Txt(<<"N","o","t","h","i","n","g"," ","s","e","c","r","e","t"," ","h","e","r","e",".">>) >>

\* password=abc
LShortPassword ==
  << Txt(<<"p","a","s","s","w","o","r","d","=","a","b","c">>) >>

\* KEY = "AKIA1234567890ABCDEF"
LAwsQuoted ==
  << Txt(<<"K","E","Y"," ","="," ">>),
     Occ(1, <<"\"">>,
            <<"A","K","I","A","1","2","3","4","5","6","7","8","9","0","A","B","C","D","E","F">>,
            <<"\"">>) >>

\* AKIA1234567890ABCDEF
LAwsBare ==
  << Occ(1, <<>>,
            <<"A","K","I","A","1","2","3","4","5","6","7","8","9","0","A","B","C","D","E","F">>,
            <<>>) >>

\* api_key = "abcdefgh12"
LApiShortValue ==
  << Occ(2, <<"a","p","i","_","k","e","y"," ","="," ","\"">>,
            <<"a","b","c","d","e","f","g","h","1","2">>,
            <<"\"">>) >>

\* api_key=aaaaaaaa
LApiLow ==
  << Occ(2, <<"a","p","i","_","k","e","y","=">>,
            <<"a","a","a","a","a","a","a","a">>,
            <<>>) >>

\* api_key=abcdefghijklmnop
LApiHigh ==
  << Occ(2, <<"a","p","i","_","k","e","y","=">>,
            <<"a","b","c","d","e","f","g","h","i","j","k","l","m","n","o","p">>,
            <<>>) >>

\* api_key=api_key=bcdfghjl
LApiKeyInValue ==
  << Occ(2, <<"a","p","i","_","k","e","y","=">>,
            <<"a","p","i","_","k","e","y","=","b","c","d","f","g","h","j","l">>,
            <<>>) >>

\* api_key=aaaaaaaa api_key=abcdefghijklmnop
LApiLowThenHigh ==
  << Occ(2, <<"a","p","i","_","k","e","y","=">>,
            <<"a","a","a","a","a","a","a","a">>,
            <<>>),
     Txt(<<" ">>),
     Occ(2, <<"a","p","i","_","k","e","y","=">>,
            <<"a","b","c","d","e","f","g","h","i","j","k","l","m","n","o","p">>,
            <<>>) >>

\* api_key=abcdefghijklmnop api_key=aaaaaaaa
LApiHighThenLow ==
  << Occ(2, <<"a","p","i","_","k","e","y","=">>,
            <<"a","b","c","d","e","f","g","h","i","j","k","l","m","n","o","p">>,
            <<>>),
     Txt(<<" ">>),
     Occ(2, <<"a","p","i","_","k","e","y","=">>,
            <<"a","a","a","a","a","a","a","a">>,
            <<>>) >>

\* pwd=abcefghijklm
LPwdAtThreshold ==
  << Occ(3, <<"p","w","d","=">>,
            <<"a","b","c","e","f","g","h","i","j","k","l","m">>,
            <<>>) >>

\* AKIA1234567890ABCDEF pwd=abcefghijklm
LAwsAndPwd ==
  << Occ(1, <<>>,
            <<"A","K","I","A","1","2","3","4","5","6","7","8","9","0","A","B","C","D","E","F">>,
            <<" ">>),
     Occ(3, <<"p","w","d","=">>,
            <<"a","b","c","e","f","g","h","i","j","k","l","m">>,
            <<>>) >>

\* api_key=abcdefghijklmnop # gitshield:ignore
LIgnoredHash ==
  << Occ(2, <<"a","p","i","_","k","e","y","=">>,
            <<"a","b","c","d","e","f","g","h","i","j","k","l","m","n","o","p">>,
            <<>>),
     Txt(<<" ","#"," ","g","i","t","s","h","i","e","l","d",":","i","g","n","o","r","e">>) >>

\* AKIA1234567890ABCDEF // gitshield:ignore
LIgnoredSlash ==
  << Occ(1, <<>>,
            <<"A","K","I","A","1","2","3","4","5","6","7","8","9","0","A","B","C","D","E","F">>,
            <<" ">>),
     Txt(<<"/","/"," ","g","i","t","s","h","i","e","l","d",":","i","g","n","o","r","e">>) >>

\* echo "-- gitshield:ignore" AKIA1234567890ABCDEF
LIgnoredDash ==
  << Txt(<<"e","c","h","o"," ","\"","-","-"," ","g","i","t","s","h","i","e","l","d",":","i","g","n","o","r","e","\"">>),
     Occ(1, <<" ">>,
            <<"A","K","I","A","1","2","3","4","5","6","7","8","9","0","A","B","C","D","E","F">>,
            <<>>) >>


ModelLines == {
    LPlain, LShortPassword, LAwsQuoted, LAwsBare,
    LApiShortValue, LApiLow, LApiHigh, LApiKeyInValue,
    LApiLowThenHigh, LApiHighThenLow, LPwdAtThreshold, LAwsAndPwd,
    LIgnoredHash, LIgnoredSlash, LIgnoredDash }

\* The texts of at most MaxLines lines.
Texts == UNION {[1..n -> ModelLines] : n \in 0..MaxLines}

Filenames == { <<"c","o","n","t","e","n","t">>, <<"<","s","t","d","i","n",">">> }

----------------------------------------------------------------------------
(* Paths: a path is the sequence of its components (pathlib's parts), each *)
(* a string; the first part of an absolute path is "/".                    *)

RECURSIVE JoinParts(_)
\* the components joined with "/"
JoinParts(parts) ==
    IF parts = <<>> THEN <<>>
    ELSE IF Len(parts) = 1 THEN parts[1]
    ELSE parts[1] \o <<"/">> \o JoinParts(Tail(parts))

\* str(path) of an absolute path
PathStr(parts) == <<"/">> \o JoinParts(Tail(parts))

UpperCase == <<"A","B","C","D","E","F","G","H","I","J","K","L","M","N","O","P","Q","R","S","T","U","V","W","X","Y","Z">>
LowerCase == <<"a","b","c","d","e","f","g","h","i","j","k","l","m","n","o","p","q","r","s","t","u","v","w","x","y","z">>

\* str.lower() on the ASCII letters
lower(s) ==
    [i \in 1..Len(s) |->
        IF \E k \in 1..26 : UpperCase[k] = s[i]
        THEN LowerCase[CHOOSE k \in 1..26 : UpperCase[k] = s[i]]
        ELSE s[i]]

\* PurePath.suffix: the name from its last dot on, "" when the dot is the first
\* or the last character or there is none
suffix(name) ==
    LET dots == {i \in 1..Len(name) : name[i] = "."} IN
    IF dots = {} THEN <<>>
    ELSE LET i == CHOOSE d \in dots : \A e \in dots : e <= d
         IN  IF 1 < i /\ i < Len(name) THEN SubSeq(name, i, Len(name)) ELSE <<>>

RECURSIVE fnmatchFrom(_, _, _, _)
\* fnmatch.fnmatch for patterns of literals, '*' and '?': name[i..] against pat[j..]
fnmatchFrom(name, i, pat, j) ==
    IF j > Len(pat) THEN i > Len(name)
    ELSE IF pat[j] = "*"
         THEN \/ fnmatchFrom(name, i, pat, j + 1)
              \/ (i <= Len(name) /\ fnmatchFrom(name, i + 1, pat, j))
    ELSE /\ i <= Len(name)
         /\ (pat[j] = "?" \/ pat[j] = name[i])
         /\ fnmatchFrom(name, i + 1, pat, j + 1)

fnmatch(name, pat) == fnmatchFrom(name, 1, pat, 1)

RECURSIVE rstripSlash(_)
\* pattern.rstrip("/")
rstripSlash(s) ==
    IF s # <<>> /\ s[Len(s)] = "/" THEN rstripSlash(SubSeq(s, 1, Len(s) - 1)) ELSE s

RECURSIVE strip(_)
\* str.strip() of blanks
strip(s) ==
    IF s # <<>> /\ s[1] \in {" ", "\n", "\t"} THEN strip(Tail(s))
    ELSE IF s # <<>> /\ s[Len(s)] \in {" ", "\n", "\t"}
         THEN strip(SubSeq(s, 1, Len(s) - 1))
    ELSE s

----------------------------------------------------------------------------
(* engine.py: files and directory trees *)

_SKIP_DIRS == {
    <<".","g","i","t">>,
    <<"n","o","d","e","_","m","o","d","u","l","e","s">>,
    <<"_","_","p","y","c","a","c","h","e","_","_">>,
    <<".","v","e","n","v">>,
    <<"v","e","n","v">>,
    <<".","e","n","v">> }

_BINARY_EXTENSIONS == {
    <<".","p","n","g">>, <<".","j","p","g">>, <<".","j","p","e","g">>, <<".","g","i","f">>,
    <<".","i","c","o">>, <<".","b","m","p">>, <<".","w","e","b","p">>,
    <<".","w","o","f","f">>, <<".","w","o","f","f","2">>, <<".","t","t","f">>,
    <<".","o","t","f">>, <<".","e","o","t">>,
    <<".","p","d","f">>,
    <<".","z","i","p">>, <<".","t","a","r">>, <<".","g","z">>, <<".","b","z","2">>,
    <<".","x","z">>, <<".","7","z">>, <<".","r","a","r">>,
    <<".","e","x","e">>, <<".","d","l","l">>, <<".","s","o">>, <<".","d","y","l","i","b">>,
    <<".","p","y","c">>, <<".","p","y","o">>, <<".","c","l","a","s","s">> }

\* the size of the chunk _is_binary_file reads
_probe_size == 8192

\* A file-system entry under the root: rel is its path relative to the root,
\* is_file says it is a regular file, probe_ok that the file can be opened and
\* its first chunk read, nul_at is the 1-based position of its first null byte
\* (0 when it has none), read_ok says read_text succeeds, and lines is its text.
EntryAt(rel, is_file, probe_ok, nul_at, read_ok, lines) ==
    [rel |-> rel, is_file |-> is_file, probe_ok |-> probe_ok, nul_at |-> nul_at,
     read_ok |-> read_ok, lines |-> lines]

\* an entry whose first byte is null (nul) or that has no null byte
Entry(rel, is_file, probe_ok, nul, read_ok, lines) ==
    EntryAt(rel, is_file, probe_ok, IF nul THEN 1 ELSE 0, read_ok, lines)

\* A plausible bug: a file whose probe fails is taken for text.
_is_binary_fileProbeErrorIsText(e) ==
    IF e.probe_ok THEN (e.nul_at # 0 /\ e.nul_at <= _probe_size) ELSE FALSE

\* chunk = fh.read(8192); b"\x00" in chunk; True when the probe raises OSError
_is_binary_file(e) ==
    IF e.probe_ok THEN (e.nul_at # 0 /\ e.nul_at <= _probe_size) ELSE TRUE

\* A plausible bug: only the extension is looked at, the directory names are not.
_should_skip_pathExtOnly(parts) ==
    lower(suffix(parts[Len(parts)])) \in _BINARY_EXTENSIONS

\* `for part in path.parts: if part in _SKIP_DIRS`, then the extension
_should_skip_path(parts) ==
    \/ \E i \in 1..Len(parts) : parts[i] \in _SKIP_DIRS
    \/ lower(suffix(parts[Len(parts)])) \in _BINARY_EXTENSIONS

\* The patterns of root/.gitignore; gitignore is None when there is no such
\* file or it cannot be read, else Some(its lines).
_parse_gitignore(gitignore) ==
    IF gitignore = None THEN <<>>
    ELSE SelectSeq([i \in 1..Len(gitignore[1]) |-> strip(gitignore[1][i])],
                   LAMBDA l : l # <<>> /\ l[1] # "#")

\* A plausible bug: a pattern without a trailing slash is matched against the
\* whole relative path only, not against the bare file name.
_matches_gitignoreNoBasename(rel, ignore_patterns) ==
    \E k \in 1..Len(ignore_patterns) :
        LET pattern == ignore_patterns[k] IN
        IF pattern # <<>> /\ pattern[Len(pattern)] = "/"
        THEN \E i \in 1..Len(rel) : fnmatch(rel[i], rstripSlash(pattern))
        ELSE fnmatch(JoinParts(rel), pattern)

\* rel is Path(rel_path).parts
_matches_gitignore(rel, ignore_patterns) ==
    \E k \in 1..Len(ignore_patterns) :
        LET pattern == ignore_patterns[k] IN
        IF pattern # <<>> /\ pattern[Len(pattern)] = "/"
        THEN \E i \in 1..Len(rel) : fnmatch(rel[i], rstripSlash(pattern))
        ELSE \/ fnmatch(JoinParts(rel), pattern)
             \/ fnmatch(rel[Len(rel)], pattern)

\* A plausible bug: the binary probe is left out.
scan_fileNoBinaryCheck(parts, e) ==
    IF ~e.is_file THEN <<>>
    ELSE IF ~e.read_ok THEN <<>>
    ELSE scan_text(e.lines, PathStr(parts), 0)

\* scan_file of the entry at the absolute path `parts`
scan_file(parts, e) ==
    IF ~e.is_file THEN <<>>
    ELSE IF _is_binary_file(e) THEN <<>>
    ELSE IF ~e.read_ok THEN <<>>
    ELSE scan_text(e.lines, PathStr(parts), 0)

\* the entry of the tree at the relative path, or a missing one
Lookup(tree, rel) ==
    IF \E i \in 1..Len(tree) : tree[i].rel = rel
    THEN tree[CHOOSE i \in 1..Len(tree) : tree[i].rel = rel]
    ELSE Entry(rel, FALSE, FALSE, FALSE, FALSE, <<>>)

RECURSIVE ScanStagedFrom(_, _, _)
\* the loop of _scan_staged over the names git lists, from the k-th on
ScanStagedFrom(w, names, k) ==
    IF k > Len(names) THEN <<>>
    ELSE LET file_path == w.root \o names[k] IN
         (IF _should_skip_path(file_path) THEN <<>>
          ELSE scan_file(file_path, Lookup(w.tree, names[k])))
            \o ScanStagedFrom(w, names, k + 1)

\* A plausible bug: the exit status of git is not looked at.
_scan_stagedIgnoresStatus(w) ==
    IF w.git.status = "oserror" THEN <<>>
    ELSE ScanStagedFrom(w, w.git.names, 1)

\* _scan_staged: git cannot be started, exits non-zero, or lists the staged names
_scan_staged(w) ==
    IF w.git.status = "oserror" THEN <<>>
    ELSE IF w.git.status = "nonzero" THEN <<>>
    ELSE ScanStagedFrom(w, w.git.names, 1)

RECURSIVE WalkFrom(_, _, _)
\* the loop over root.rglob("*"), from the k-th entry on
WalkFrom(w, ignore_patterns, k) ==
    IF k > Len(w.tree) THEN <<>>
    ELSE LET e == w.tree[k]
             file_path == w.root \o e.rel
         IN  (IF ~e.is_file THEN <<>>
              ELSE IF _should_skip_path(file_path) THEN <<>>
              ELSE IF ignore_patterns # <<>> /\ _matches_gitignore(e.rel, ignore_patterns)
                   THEN <<>>
              ELSE scan_file(file_path, e))
                \o WalkFrom(w, ignore_patterns, k + 1)

\* A plausible bug: no_git is not consulted, the .gitignore is applied anyway.
scan_directoryIgnoresNoGit(w, staged_only, no_git, respect_gitignore) ==
    IF w.target # "dir" THEN <<>>
    ELSE IF staged_only THEN _scan_staged(w)
    ELSE WalkFrom(w,
            IF respect_gitignore THEN _parse_gitignore(w.gitignore) ELSE <<>>,
            1)

scan_directory(w, staged_only, no_git, respect_gitignore) ==
    IF w.target # "dir" THEN <<>>
    ELSE IF staged_only THEN _scan_staged(w)
    ELSE WalkFrom(w,
            IF respect_gitignore /\ ~no_git THEN _parse_gitignore(w.gitignore) ELSE <<>>,
            1)

----------------------------------------------------------------------------
(* engine.py: the files a scan touches.  An event records that scan_file   *)
(* opened the file for the probe ("open"), read it as text ("read_text")   *)
(* or handed its text to scan_text ("scan_text").                          *)

Event(ev, parts) == [ev |-> ev, path |-> parts]

\* the events of scan_file of the entry at the absolute path `parts`
scan_file_events(parts, e) ==
    IF ~e.is_file THEN <<>>
    ELSE <<Event("open", parts)>> \o
         (IF _is_binary_file(e) THEN <<>>
          ELSE <<Event("read_text", parts)>> \o
               (IF ~e.read_ok THEN <<>> ELSE <<Event("scan_text", parts)>>))

RECURSIVE StagedEventsFrom(_, _, _)
\* the events of the loop of _scan_staged, from the k-th name on
StagedEventsFrom(w, names, k) ==
    IF k > Len(names) THEN <<>>
    ELSE LET file_path == w.root \o names[k] IN
         (IF _should_skip_path(file_path) THEN <<>>
          ELSE scan_file_events(file_path, Lookup(w.tree, names[k])))
            \o StagedEventsFrom(w, names, k + 1)

_scan_staged_events(w) ==
    IF w.git.status = "oserror" THEN <<>>
    ELSE IF w.git.status = "nonzero" THEN <<>>
    ELSE StagedEventsFrom(w, w.git.names, 1)

RECURSIVE WalkEventsFrom(_, _, _)
\* the events of the loop over root.rglob("*"), from the k-th entry on
WalkEventsFrom(w, ignore_patterns, k) ==
    IF k > Len(w.tree) THEN <<>>
    ELSE LET e == w.tree[k]
             file_path == w.root \o e.rel
         IN  (IF ~e.is_file THEN <<>>
              ELSE IF _should_skip_path(file_path) THEN <<>>
              ELSE IF ignore_patterns # <<>> /\ _matches_gitignore(e.rel, ignore_patterns)
                   THEN <<>>
              ELSE scan_file_events(file_path, e))
                \o WalkEventsFrom(w, ignore_patterns, k + 1)

scan_directory_events(w, staged_only, no_git, respect_gitignore) ==
    IF w.target # "dir" THEN <<>>
    ELSE IF staged_only THEN _scan_staged_events(w)
    ELSE WalkEventsFrom(w,
            IF respect_gitignore /\ ~no_git THEN _parse_gitignore(w.gitignore) ELSE <<>>,
            1)

----------------------------------------------------------------------------
(* scanner.py: the gitleaks run and scan_path *)

_truncate_secret_max_len == 20

_truncate_secret(secret) ==
    IF Len(secret) <= _truncate_secret_max_len THEN secret
    ELSE LET keep == (_truncate_secret_max_len - 3) \div 2 IN
         SubSeq(secret, 1, keep) \o Ellipsis
            \o SubSeq(secret, Len(secret) - keep + 1, Len(secret))

\* dict.get(key, default) of a report item
Get(item, key, default) == IF key \in DOMAIN item THEN item[key] ELSE default

\* the Finding built from one item of the gitleaks report
GitleaksFinding(item) ==
    [file        |-> Get(item, "File", <<>>),
     line        |-> Get(item, "StartLine", 0),
     rule_id     |-> Get(item, "RuleID", <<"u","n","k","n","o","w","n">>),
     secret      |-> _truncate_secret(Get(item, "Secret", <<>>)),
     fingerprint |-> Get(item, "Fingerprint", <<>>),
     entropy     |-> Get(item, "Entropy", 0),
     commit      |-> IF "Commit" \in DOMAIN item THEN Some(item.Commit) ELSE None,
     author      |-> IF "Author" \in DOMAIN item THEN Some(item.Author) ELSE None,
     severity    |-> "medium"]

\* shutil.which("gitleaks") as scan_path asks it
_has_gitleaks(gl) == gl.installed

\* _scan_with_gitleaks: [raised, findings].  gl says what the installation does:
\* whether the binary is still found when asked again, whether the process can be
\* started, whether its stderr holds "error", and what the report file is.
_scan_with_gitleaks(gl) ==
    IF ~gl.installed_again THEN [raised |-> "GitleaksNotFound", findings |-> <<>>]
    ELSE IF gl.run = "oserror" THEN [raised |-> "OSError", findings |-> <<>>]
    ELSE IF gl.stderr_error THEN [raised |-> "ScannerError", findings |-> <<>>]
    ELSE IF gl.report \in {"missing", "empty"} THEN [raised |-> "none", findings |-> <<>>]
    ELSE IF gl.report = "invalid" THEN [raised |-> "JSONDecodeError", findings |-> <<>>]
    ELSE IF gl.report = "null" THEN [raised |-> "none", findings |-> <<>>]
    ELSE IF gl.report = "object" THEN [raised |-> "AttributeError", findings |-> <<>>]
    ELSE IF gl.items = <<>> THEN [raised |-> "none", findings |-> <<>>]
    ELSE [raised |-> "none",
          findings |-> [i \in 1..Len(gl.items) |-> GitleaksFinding(gl.items[i])]]

\* A plausible bug: the existence check is dropped.
PathExistsAlways(w) == TRUE

\* resolved.exists()
PathExists(w) == w.target # "missing"

\* the exceptions scan_path catches around the gitleaks run
Caught == {"ScannerError", "GitleaksNotFound"}

\* A plausible bug: external findings are appended without looking at the
\* fingerprints seen.
MergeAll(native_findings, gitleaks_findings) == native_findings \o gitleaks_findings

RECURSIVE MergeFromPrepend(_, _, _, _)
\* A plausible bug: an external finding is put in front of the list.
MergeFromPrepend(merged, seen_fingerprints, gitleaks_findings, k) ==
    IF k > Len(gitleaks_findings) THEN merged
    ELSE LET f == gitleaks_findings[k] IN
         IF f.fingerprint \notin seen_fingerprints
         THEN MergeFromPrepend(<<f>> \o merged, seen_fingerprints \cup {f.fingerprint},
                               gitleaks_findings, k + 1)
         ELSE MergeFromPrepend(merged, seen_fingerprints, gitleaks_findings, k + 1)

RECURSIVE MergeFrom(_, _, _, _)
\* the merge loop from the k-th gitleaks finding on
MergeFrom(merged, seen_fingerprints, gitleaks_findings, k) ==
    IF k > Len(gitleaks_findings) THEN merged
    ELSE LET f == gitleaks_findings[k] IN
         IF f.fingerprint \notin seen_fingerprints
         THEN MergeFrom(Append(merged, f), seen_fingerprints \cup {f.fingerprint},
                        gitleaks_findings, k + 1)
         ELSE MergeFrom(merged, seen_fingerprints, gitleaks_findings, k + 1)

Merge(native_findings, gitleaks_findings) ==
    MergeFrom(native_findings,
              {native_findings[i].fingerprint : i \in 1..Len(native_findings)},
              gitleaks_findings, 1)

\* the native run of scan_path
NativeRun(w, fl) ==
    IF w.target = "file"
    THEN scan_file(w.root, w.tree[1])
    ELSE scan_directory(w, fl.staged_only, fl.no_git, TRUE)

\* scan_path: what it raises, which engines ran, the two lists and the value
scan_path(w, fl) ==
    IF ~PathExists(w)
    THEN [raised |-> "ScannerError", native_ran |-> FALSE, gitleaks_ran |-> FALSE,
          native |-> <<>>, external |-> <<>>, value |-> <<>>]
    ELSE LET native_findings == NativeRun(w, fl)
             ran == _has_gitleaks(w.gl)
             r == IF ran THEN _scan_with_gitleaks(w.gl)
                  ELSE [raised |-> "none", findings |-> <<>>]
             gitleaks_findings == IF r.raised = "none" THEN r.findings ELSE <<>>
         IN  IF r.raised \notin Caught \cup {"none"}
             THEN [raised |-> r.raised, native_ran |-> TRUE, gitleaks_ran |-> ran,
                   native |-> native_findings, external |-> <<>>, value |-> <<>>]
             ELSE [raised |-> "none", native_ran |-> TRUE, gitleaks_ran |-> ran,
                   native |-> native_findings, external |-> gitleaks_findings,
                   value |-> Merge(native_findings, gitleaks_findings)]

----------------------------------------------------------------------------
(* config.py: the filter of findings *)

\* Path(filepath).name: what follows the last "/" of the path
PathName(s) ==
    LET t == rstripSlash(s)
        slashes == {i \in 1..Len(t) : t[i] = "/"}
    IN  IF slashes = {} THEN t
        ELSE SubSeq(t, (CHOOSE i \in slashes : \A j \in slashes : j <= i) + 1, Len(t))

\* A plausible bug: the glob is matched against the full path only.
_matches_any_globFullPathOnly(filepath, patterns) ==
    \E k \in 1..Len(patterns) : fnmatch(filepath, patterns[k])

_matches_any_glob(filepath, patterns) ==
    \E k \in 1..Len(patterns) :
        \/ fnmatch(filepath, patterns[k])
        \/ fnmatch(PathName(filepath), patterns[k])

\* config is None or Some(GitShieldConfig); a list field is a sequence
filter_findings(fs, ignores, config) ==
    LET all_fingerprints ==
            IF config # None THEN ignores \cup config[1].allowlist_fingerprints
            ELSE ignores
        dropped(f) ==
            \/ f.fingerprint \in all_fingerprints
            \/ /\ config # None
               /\ \/ \E k \in 1..Len(config[1].allowlist_rules) :
                        config[1].allowlist_rules[k] = f.rule_id
                  \/ /\ config[1].allowlist_paths # <<>>
                     /\ _matches_any_glob(f.file, config[1].allowlist_paths)
    IN  SelectSeq(fs, LAMBDA f : ~dropped(f))

----------------------------------------------------------------------------
(* config.py and cli.py: the ignore file, the TOML file and the scan command *)

\* load_ignore_list: the fingerprints of .gitshieldignore, None when the file
\* does not exist
load_ignore_list(ignore_file) ==
    IF ignore_file = None THEN {}
    ELSE {strip(ignore_file[1][i]) : i \in 1..Len(ignore_file[1])}
            \ {l \in {strip(ignore_file[1][i]) : i \in 1..Len(ignore_file[1])} :
                    l = <<>> \/ l[1] = "#"}

\* _parse_toml: None when the file is missing or malformed, else its tables
_parse_toml(toml) ==
    IF toml.kind \in {"missing", "malformed"} THEN None ELSE Some(toml.data)

\* GitShieldConfig(): the allowlists of the defaults
GitShieldConfig ==
    [allowlist_paths |-> <<>>, allowlist_rules |-> <<>>, allowlist_fingerprints |-> {}]

\* load_config: the allowlists of .gitshield.toml
load_config(toml) ==
    LET data == _parse_toml(toml) IN
    IF data = None THEN GitShieldConfig
    ELSE LET allowlist == Get(data[1], "allowlist", <<>>)
             fingerprints_raw == Get(allowlist, "fingerprints", <<>>)
         IN  [allowlist_paths |-> Get(allowlist, "paths", <<>>),
              allowlist_rules |-> Get(allowlist, "rules", <<>>),
              allowlist_fingerprints |->
                    {fingerprints_raw[i] : i \in 1..Len(fingerprints_raw)}]

\* the scan command: the exit status of the process, the exception that left
\* the command uncaught, the printer that ran and the findings handed to it
scan(w, c) ==
    LET r == scan_path(w, [staged_only |-> c.staged, no_git |-> c.no_git])
        ignores == load_ignore_list(c.ignore_file)
        filtered == filter_findings(r.value, ignores, None)
        printer == IF c.sarif THEN "print_sarif"
                   ELSE IF c.as_json THEN "print_json"
                   ELSE "print_findings"
    IN  IF r.raised = "ScannerError"
        THEN [exit |-> 2, raised |-> "none", printer |-> "none", printed |-> <<>>,
              blocked_message |-> FALSE]
        ELSE IF r.raised # "none"
        THEN [exit |-> 1, raised |-> r.raised, printer |-> "none", printed |-> <<>>,
              blocked_message |-> FALSE]
        ELSE [exit |-> IF filtered # <<>> THEN 1 ELSE 0,
              raised |-> "none", printer |-> printer, printed |-> filtered,
              blocked_message |->
                    filtered # <<>> /\ ~c.as_json /\ ~c.sarif /\ ~c.quiet]

----------------------------------------------------------------------------
(* hook.py: the hook of the coding assistant *)

ALLOWED_PATHS == <<
    <<".","e","n","v",".","e","x","a","m","p","l","e">>,
    <<".","e","n","v",".","t","e","m","p","l","a","t","e">>,
    <<".","e","n","v",".","s","a","m","p","l","e">>,
    <<"*",".","t","e","s","t",".","*">>,
    <<"*",".","s","p","e","c",".","*">>,
    <<"f","i","x","t","u","r","e","s","/">>,
    <<"_","_","f","i","x","t","u","r","e","s","_","_","/">>,
    <<"t","e","s","t","d","a","t","a","/">> >>

SENSITIVE_PATHS == <<
    <<".","e","n","v">>,
    <<"c","r","e","d","e","n","t","i","a","l","s">>,
    <<"s","e","c","r","e","t">>,
    <<".","p","e","m">>,
    <<".","k","e","y">>,
    <<".","p","1","2">>,
    <<".","p","f","x">> >>

\* s.endswith(t) and s.startswith(t)
endswith(s, t) == Len(t) <= Len(s) /\ SubSeq(s, Len(s) - Len(t) + 1, Len(s)) = t
startswith(s, t) == Len(t) <= Len(s) /\ SubSeq(s, 1, Len(t)) = t

\* s.split("/")[-1]
SplitLast(s) ==
    LET slashes == {i \in 1..Len(s) : s[i] = "/"} IN
    IF slashes = {} THEN s
    ELSE SubSeq(s, (CHOOSE i \in slashes : \A j \in slashes : j <= i) + 1, Len(s))

_is_allowed_path(filepath) ==
    \E k \in 1..Len(ALLOWED_PATHS) :
        LET pattern == ALLOWED_PATHS[k] IN
        IF endswith(pattern, <<"/">>)
        THEN \/ Contains(lower(filepath), <<"/">> \o pattern)
             \/ startswith(lower(filepath), pattern)
        ELSE IF Contains(pattern, <<"*">>) THEN fnmatch(SplitLast(filepath), pattern)
        ELSE endswith(lower(filepath), pattern)

_is_sensitive_path(filepath) ==
    \E k \in 1..Len(SENSITIVE_PATHS) :
        \/ endswith(lower(filepath), SENSITIVE_PATHS[k])
        \/ Contains(lower(filepath), <<"/">> \o SENSITIVE_PATHS[k])

\* _format_block_reason: what the message names (the path, the rule ids, the
\* number of findings)
_format_block_reason(fs, filepath) ==
    [filepath |-> filepath,
     found |-> {fs[i].rule_id : i \in 1..Len(fs)},
     count |-> Len(fs)]

\* a JSON value: an object with its members, or a value of another type
Object(members) == [type |-> "object", members |-> members]
NotAnObject == [type |-> "array", members |-> <<>>]

Approve == [result |-> "approve"]
Blocked(fs, filepath) == [result |-> "block", reason |-> _format_block_reason(fs, filepath)]

\* the findings of severity critical or high
Critical(fs) == SelectSeq(fs, LAMBDA f : f.severity \in {"critical", "high"})

\* A plausible bug: the sensitive paths are tested before the allowlist.
WriteDecisionSensitiveFirst(filepath, content) ==
    LET fs == scan_content(content, IF filepath # <<>> THEN filepath ELSE <<"f","i","l","e">>) IN
    IF content # <<>> /\ fs # <<>> /\ _is_sensitive_path(filepath) THEN Blocked(fs, filepath)
    ELSE IF _is_allowed_path(filepath) THEN Approve
    ELSE IF content = <<>> THEN Approve
    ELSE IF fs # <<>> /\ Critical(fs) # <<>> THEN Blocked(Critical(fs), filepath)
    ELSE Approve

\* handle_hook for Write and Edit, from the path and the content on
WriteDecision(filepath, content) ==
    LET fs == scan_content(content, IF filepath # <<>> THEN filepath ELSE <<"f","i","l","e">>) IN
    IF _is_allowed_path(filepath) THEN Approve
    ELSE IF content = <<>> THEN Approve
    ELSE IF fs # <<>> /\ _is_sensitive_path(filepath) THEN Blocked(fs, filepath)
    ELSE IF fs # <<>> /\ Critical(fs) # <<>> THEN Blocked(Critical(fs), filepath)
    ELSE Approve

\* handle_hook for Bash, from the command on
BashDecision(command) ==
    LET fs == scan_content(command, <<"b","a","s","h","-","c","o","m","m","a","n","d">>) IN
    IF command = <<>> THEN Approve
    ELSE IF fs # <<>> /\ Critical(fs) # <<>> THEN Blocked(Critical(fs), <<>>)
    ELSE Approve

\* handle_hook: [raised, result]; .get of a value that is no object raises
\* AttributeError
handle_hook(input_data) ==
    IF input_data.type # "object" THEN [raised |-> "AttributeError", result |-> Approve]
    ELSE
    LET tool_name == Get(input_data.members, "tool_name", "")
        tool_input == Get(input_data.members, "tool_input", Object(<<>>))
    IN  IF tool_name \in {"Write", "Edit"}
        THEN IF tool_input.type # "object"
             THEN [raised |-> "AttributeError", result |-> Approve]
             ELSE
             LET ti == tool_input.members
                 filepath == Get(ti, "file_path", Get(ti, "path", <<>>))
                 content == Get(ti, "content", <<>>)
             IN  [raised |-> "none",
                  result |-> WriteDecision(filepath,
                                IF content = <<>> THEN Get(ti, "new_string", <<>>)
                                ELSE content)]
        ELSE IF tool_name = "Bash"
        THEN IF tool_input.type # "object"
             THEN [raised |-> "AttributeError", result |-> Approve]
             ELSE [raised |-> "none",
                   result |-> BashDecision(Get(tool_input.members, "command", <<>>))]
        ELSE [raised |-> "none", result |-> Approve]

\* A plausible bug: main without the except clause, so a failure prints
\* nothing and ends the process with a traceback.
mainNoExcept(stdin) ==
    IF stdin.read = "error" \/ stdin.parse = "error"
    THEN [printed |-> <<>>, exit |-> 1]
    ELSE LET r == handle_hook(stdin.value) IN
         IF r.raised # "none" THEN [printed |-> <<>>, exit |-> 1]
         ELSE [printed |-> <<r.result>>, exit |-> 0]

\* main: the decisions printed to stdout and the exit status
main(stdin) ==
    IF stdin.read = "error" \/ stdin.parse = "error"
    THEN [printed |-> <<Approve>>, exit |-> 0]
    ELSE LET r == handle_hook(stdin.value) IN
         IF r.raised # "none" THEN [printed |-> <<Approve>>, exit |-> 0]
         ELSE [printed |-> <<r.result>>, exit |-> 0]

----------------------------------------------------------------------------
(* cli.py: the pre-commit hook of a repository *)

\* content.split("\n")
RECURSIVE split(_)
split(s) ==
    IF \A i \in 1..Len(s) : s[i] # "\n" THEN <<s>>
    ELSE LET n == CHOOSE i \in 1..Len(s) : s[i] = "\n" /\ \A j \in 1..(i - 1) : s[j] # "\n"
         IN  <<SubSeq(s, 1, n - 1)>> \o split(SubSeq(s, n + 1, Len(s)))

\* "\n".join(lines)
RECURSIVE join(_)
join(lines) ==
    IF lines = <<>> THEN <<>>
    ELSE IF Len(lines) = 1 THEN lines[1]
    ELSE lines[1] \o <<"\n">> \o join(Tail(lines))

\* the text hook_install appends to an existing hook
gitshield_hook ==
    <<"\n","\n","#"," ","G","i","t","S","h","i","e","l","d"," ","s","e","c","r","e","t"," ","s","c","a","n","\n","e","x","p","o","r","t"," ","P","A","T","H","=","\"","$","P","A","T","H",":","$","H","O","M","E","/","L","i","b","r","a","r","y","/","P","y","t","h","o","n","/","3",".","9","/","b","i","n",":","$","H","O","M","E","/",".","l","o","c","a","l","/","b","i","n","\"","\n","g","i","t","s","h","i","e","l","d"," ","s","c","a","n"," ","-","-","s","t","a","g","e","d"," ","-","-","q","u","i","e","t","\n">>

\* the hook hook_install writes when there is none
hook_content ==
    <<"#","!","/","b","i","n","/","s","h","\n","#"," ","G","i","t","S","h","i","e","l","d"," ","p","r","e","-","c","o","m","m","i","t"," ","h","o","o","k","\n","\n","e","x","p","o","r","t"," ","P","A","T","H","=","\"","$","P","A","T","H",":","$","H","O","M","E","/","L","i","b","r","a","r","y","/","P","y","t","h","o","n","/","3",".","9","/","b","i","n",":","$","H","O","M","E","/",".","l","o","c","a","l","/","b","i","n","\"","\n","g","i","t","s","h","i","e","l","d"," ","s","c","a","n"," ","-","-","s","t","a","g","e","d"," ","-","-","q","u","i","e","t","\n">>

\* hook_install: the hook file after the command and the exit status; the
\* file is None when it does not exist
hook_install(hooks_dir, hook) ==
    IF ~hooks_dir THEN [hook |-> hook, exit |-> 1]
    ELSE IF hook # None
    THEN IF Contains(hook[1], <<"g","i","t","s","h","i","e","l","d">>) THEN [hook |-> hook, exit |-> 0]
         ELSE [hook |-> Some(hook[1] \o gitshield_hook), exit |-> 0]
    ELSE [hook |-> Some(hook_content), exit |-> 0]

RECURSIVE UninstallFrom(_, _, _)
\* the loop of hook_uninstall over the lines, from the k-th line on
UninstallFrom(lines, k, skip_next) ==
    IF k > Len(lines) THEN <<>>
    ELSE IF Contains(lines[k], <<"#"," ","G","i","t","S","h","i","e","l","d">>) THEN UninstallFrom(lines, k + 1, TRUE)
    ELSE IF skip_next /\ Contains(lines[k], <<"g","i","t","s","h","i","e","l","d">>)
         THEN UninstallFrom(lines, k + 1, FALSE)
    ELSE <<lines[k]>> \o UninstallFrom(lines, k + 1, FALSE)

\* hook_uninstall: the hook file after the command and the exit status
hook_uninstall(hook) ==
    IF hook = None THEN [hook |-> hook, exit |-> 0]
    ELSE IF ~Contains(hook[1], <<"g","i","t","s","h","i","e","l","d">>) THEN [hook |-> hook, exit |-> 0]
    ELSE LET new_content == strip(join(UninstallFrom(split(hook[1]), 1, FALSE))) IN
         IF new_content \in {<<"#","!","/","b","i","n","/","s","h">>, <<"#","!","/","b","i","n","/","b","a","s","h">>, <<>>}
         THEN [hook |-> None, exit |-> 0]
         ELSE [hook |-> Some(new_content \o <<"\n">>), exit |-> 0]

----------------------------------------------------------------------------
(* claude.py: the hook entry in the settings of the coding assistant *)

HOOK_COMMAND == <<"g","i","t","s","h","i","e","l","d","-","c","l","a","u","d","e","-","h","o","o","k">>
HOOK_MATCHER == <<"W","r","i","t","e","|","E","d","i","t","|","B","a","s","h">>
HOOK_TIMEOUT == 5

\* d[key] = value and del d[key] of a dict
SetKey(d, key, value) == [x \in DOMAIN d \cup {key} |-> IF x = key THEN value ELSE d[x]]
DelKey(d, key) == [x \in DOMAIN d \ {key} |-> d[x]]

\* _load_settings: {} when the file is missing or cannot be parsed
_load_settings(file) == IF file.kind = "ok" THEN file.settings ELSE <<>>

\* _save_settings
_save_settings(settings) == [kind |-> "ok", settings |-> settings]

_is_installed(settings) ==
    LET hooks == Get(Get(settings, "hooks", <<>>), "PreToolUse", <<>>) IN
    \E g \in 1..Len(hooks) :
        \E i \in 1..Len(Get(hooks[g], "hooks", <<>>)) :
            Contains(Get(Get(hooks[g], "hooks", <<>>)[i], "command", <<>>), <<"g","i","t","s","h","i","e","l","d">>)

\* the hook group install_hook appends
hook_group ==
    [matcher |-> HOOK_MATCHER,
     hooks |-> << [type |-> "command", command |-> HOOK_COMMAND, timeout |-> HOOK_TIMEOUT] >>]

\* A plausible bug: install_hook does not look whether the hook is installed.
install_hookAlways(file) ==
    LET settings == _load_settings(file)
        hooks == Get(settings, "hooks", <<>>)
    IN  _save_settings(SetKey(settings, "hooks",
            SetKey(hooks, "PreToolUse", Append(Get(hooks, "PreToolUse", <<>>), hook_group))))

\* install_hook: the settings file after the call
install_hook(file) ==
    LET settings == _load_settings(file)
        hooks == Get(settings, "hooks", <<>>)
    IN  IF _is_installed(settings) THEN file
        ELSE _save_settings(SetKey(settings, "hooks",
                SetKey(hooks, "PreToolUse",
                       Append(Get(hooks, "PreToolUse", <<>>), hook_group))))

\* the hooks of a group that are not GitShield's
remaining(group) ==
    SelectSeq(Get(group, "hooks", <<>>),
              LAMBDA h : ~Contains(Get(h, "command", <<>>), <<"g","i","t","s","h","i","e","l","d">>))

RECURSIVE FilteredFrom(_, _)
\* the loop of uninstall_hook over the groups, from the k-th group on
FilteredFrom(pre_tool, k) ==
    IF k > Len(pre_tool) THEN <<>>
    ELSE (IF remaining(pre_tool[k]) # <<>>
          THEN << SetKey(pre_tool[k], "hooks", remaining(pre_tool[k])) >>
          ELSE <<>>)
         \o FilteredFrom(pre_tool, k + 1)

\* uninstall_hook: the settings file after the call
uninstall_hook(file) ==
    LET settings == _load_settings(file) IN
    IF ~_is_installed(settings) THEN file
    ELSE LET filtered == FilteredFrom(settings.hooks.PreToolUse, 1)
             hooks == IF filtered = <<>> THEN DelKey(settings.hooks, "PreToolUse")
                      ELSE SetKey(settings.hooks, "PreToolUse", filtered)
         IN  _save_settings(IF DOMAIN hooks = {} THEN DelKey(settings, "hooks")
                            ELSE SetKey(settings, "hooks", hooks))

----------------------------------------------------------------------------
(* The worlds scan_path is run in *)

Root == << <<"/">>, <<"r","e","p","o">> >>

File(rel, lines) == Entry(rel, TRUE, TRUE, FALSE, TRUE, lines)

\* A repository: the entries in the order rglob yields them.
RichTree == <<
    File(<< <<"a",".","p","y">> >>, <<LAwsBare, LPlain>>),
    Entry(<< <<"s","r","c">> >>, FALSE, FALSE, FALSE, FALSE, <<>>),
    File(<< <<"s","r","c">>, <<"c","o","n","f","i","g",".","p","y">> >>, <<LPlain, LApiHigh>>),
    File(<< <<".","g","i","t">>, <<"c","o","n","f","i","g">> >>, <<LAwsQuoted>>),
    File(<< <<"b","u","i","l","d">>, <<"g","e","n","e","r","a","t","e","d",".","p","y">> >>, <<LApiShortValue>>),
    File(<< <<"l","o","g","o",".","P","N","G">> >>, <<LAwsBare>>),
    Entry(<< <<"d","a","t","a",".","b","i","n">> >>, TRUE, TRUE, TRUE, TRUE, <<LAwsBare>>),
    Entry(<< <<"l","o","c","k","e","d",".","t","x","t">> >>, TRUE, FALSE, FALSE, FALSE, <<LAwsBare>>),
    File(<< <<".","g","i","t","i","g","n","o","r","e">> >>, <<LPlain>>) >>

GitignoreLines == <<
    <<"#"," ","b","u","i","l","d"," ","o","u","t","p","u","t">>,
    <<" ","b","u","i","l","d","/"," ">>,
    <<>>,
    <<"*",".","l","o","g">> >>

StagedNames == <<
    << <<"a",".","p","y">> >>,
    << <<"b","u","i","l","d">>, <<"g","e","n","e","r","a","t","e","d",".","p","y">> >>,
    << <<"d","e","l","e","t","e","d",".","p","y">> >>,
    << <<".","v","e","n","v">>, <<"p","i","p",".","c","o","n","f">> >> >>

GitWorlds == {
    [status |-> "oserror", names |-> <<>>],
    [status |-> "nonzero", names |-> <<>>],
    [status |-> "ok", names |-> StagedNames] }

\* The items a gitleaks report may hold.
ItemNoGit ==
    [File |-> <<"a",".","p","y">>, StartLine |-> 1,
     RuleID |-> <<"a","w","s","-","a","c","c","e","s","s","-","t","o","k","e","n">>,
     Secret |-> <<"A","K","I","A","1","2","3","4","5","6","7","8","9","0","A","B","C","D","E","F">>,
     Fingerprint |-> <<"a",".","p","y",":","a","w","s","-","a","c","c","e","s","s","-","t","o","k","e","n",":","1">>,
     Entropy |-> 4084183]

ItemHistory ==
    [File |-> <<"s","r","c","/","c","o","n","f","i","g",".","p","y">>, StartLine |-> 2,
     RuleID |-> <<"g","e","n","e","r","i","c","-","a","p","i","-","k","e","y">>,
     Secret |-> <<"a","b","c","d","e","f","g","h","i","j","k","l","m","n","o","p","q","r","s","t","u","v","w","x","y","z">>,
     Fingerprint |-> <<"c","0","f","f","e","e",":","s","r","c","/","c","o","n","f","i","g",".","p","y",":","g","e","n","e","r","i","c","-","a","p","i","-","k","e","y",":","2">>,
     Entropy |-> 4700439,
     Commit |-> <<"c","0","f","f","e","e">>, Author |-> <<"d","e","v">>]

\* a second match of the same rule on the same line of the same file
ItemSameLine ==
    [File |-> <<"a",".","p","y">>, StartLine |-> 1,
     RuleID |-> <<"a","w","s","-","a","c","c","e","s","s","-","t","o","k","e","n">>,
     Secret |-> <<"A","K","I","A","0","9","8","7","6","5","4","3","2","1","F","E","D","C","B","A">>,
     Fingerprint |-> <<"a",".","p","y",":","a","w","s","-","a","c","c","e","s","s","-","t","o","k","e","n",":","1">>,
     Entropy |-> 4084183]

\* an item with no RuleID and no Fingerprint
ItemBare ==
    [File |-> <<"b",".","p","y">>, StartLine |-> 3,
     Secret |-> <<"h","u","n","t","e","r","2","h","u","n","t","e","r","2">>]

ItemSameAsNative ==
    [File |-> <<"/","r","e","p","o","/","a",".","p","y">>, StartLine |-> 1,
     RuleID |-> <<"a","w","s","-","a","c","c","e","s","s","-","k","e","y","-","i","d">>,
     Secret |-> <<"A","K","I","A","1","2","3","4","5","6","7","8","9","0","A","B","C","D","E","F">>,
     Fingerprint |-> <<"/","r","e","p","o","/","a",".","p","y",":","a","w","s","-","a","c","c","e","s","s","-","k","e","y","-","i","d",":","1">>,
     Entropy |-> 4084183]

Items == {ItemNoGit, ItemSameLine, ItemHistory, ItemBare, ItemSameAsNative}

\* The reports of at most MaxItems items.
Reports == UNION {[1..n -> Items] : n \in 0..MaxItems}

ReportKinds == {"missing", "empty", "invalid", "null", "object", "list"}

NoGitleaks ==
    [installed |-> FALSE, installed_again |-> FALSE, run |-> "ok",
     stderr_error |-> FALSE, report |-> "missing", items |-> <<>>]

\* The gitleaks installations; the fields the run never reaches are left at
\* their values in NoGitleaks.
GitleaksWorlds ==
    {gl \in [installed : BOOLEAN, installed_again : BOOLEAN, run : {"ok", "oserror"},
             stderr_error : BOOLEAN, report : ReportKinds, items : Reports] :
        /\ gl.report # "list" => gl.items = <<>>
        /\ (~gl.installed \/ ~gl.installed_again \/ gl.run = "oserror") =>
                /\ gl.stderr_error = FALSE
                /\ gl.report = "missing"
        /\ ~gl.installed => (~gl.installed_again /\ gl.run = "ok")
        /\ ~gl.installed_again => gl.run = "ok"}

FsWorlds ==
    {[target |-> "missing", root |-> Root, tree |-> <<>>, gitignore |-> None,
      git |-> g] : g \in {[status |-> "oserror", names |-> <<>>]}}
    \cup
    {[target |-> "other", root |-> Root, tree |-> <<>>, gitignore |-> None,
      git |-> g] : g \in {[status |-> "oserror", names |-> <<>>]}}
    \cup
    {[target |-> "file", root |-> Root \o e.rel, tree |-> << [e EXCEPT !.rel = <<>>] >>,
      gitignore |-> None, git |-> [status |-> "oserror", names |-> <<>>]] :
        e \in {RichTree[1], RichTree[7], RichTree[9]}}
    \cup
    {[target |-> "dir", root |-> Root, tree |-> t.tree, gitignore |-> t.gitignore,
      git |-> g] :
        t \in {[tree |-> <<>>, gitignore |-> None],
               [tree |-> SubSeq(RichTree, 1, 8), gitignore |-> None],
               [tree |-> RichTree, gitignore |-> Some(GitignoreLines)]},
        g \in GitWorlds}

Worlds ==
    {[target |-> f.target, root |-> f.root, tree |-> f.tree, gitignore |-> f.gitignore,
      git |-> f.git, gl |-> gl] : f \in FsWorlds, gl \in GitleaksWorlds}

Flags == [staged_only : BOOLEAN, no_git : BOOLEAN]

----------------------------------------------------------------------------
(* The worlds scan_directory is run in *)

\* The entries of a repository checked out at Root, in the order rglob yields
\* them.
DirBase == <<
    File(<< <<"a",".","p","y">> >>, <<LAwsBare, LPlain>>),
    Entry(<< <<"s","r","c">> >>, FALSE, FALSE, FALSE, FALSE, <<>>),
    File(<< <<"s","r","c">>, <<"c","o","n","f","i","g",".","p","y">> >>, <<LPlain, LApiHigh>>),
    File(<< <<"s","r","c">>, <<"n","o","d","e","_","m","o","d","u","l","e","s">>,
            <<"p","k","g",".","j","s">> >>, <<LAwsQuoted>>),
    File(<< <<".","g","i","t">>, <<"c","o","n","f","i","g">> >>, <<LAwsQuoted>>),
    File(<< <<"b","u","i","l","d">>, <<"g","e","n","e","r","a","t","e","d",".","p","y">> >>, <<LApiHigh>>),
    File(<< <<"d","e","b","u","g",".","l","o","g">> >>, <<LAwsBare>>),
    File(<< <<"l","o","g","o",".","P","N","G">> >>, <<LAwsBare>>),
    File(<< <<".","g","i","t","i","g","n","o","r","e">> >>, <<LPlain>>) >>

\* The ways an entry fails: it is not a regular file, it cannot be opened, it
\* holds a null byte at its start or right after the probed chunk, or its text
\* cannot be read.
Modes == {"ok", "dir", "locked", "nul", "nul_late", "unreadable"}

Faulty(e, m) ==
    CASE m = "ok"         -> e
      [] m = "dir"        -> [e EXCEPT !.is_file = FALSE]
      [] m = "locked"     -> [e EXCEPT !.probe_ok = FALSE, !.read_ok = FALSE]
      [] m = "nul"        -> [e EXCEPT !.nul_at = 1]
      [] m = "nul_late"   -> [e EXCEPT !.nul_at = _probe_size + 1]
      [] m = "unreadable" -> [e EXCEPT !.read_ok = FALSE]

DirTrees ==
    {[DirBase EXCEPT ![1] = Faulty(@, m1), ![3] = Faulty(@, m3), ![6] = Faulty(@, m6)] :
        m1 \in Modes, m3 \in {"ok", "nul", "unreadable"}, m6 \in {"ok", "locked"}}

\* the names `git diff --cached --name-only` prints for the repository at Root
DirStagedNames == <<
    << <<"a",".","p","y">> >>,
    << <<"b","u","i","l","d">>, <<"g","e","n","e","r","a","t","e","d",".","p","y">> >>,
    << <<"s","r","c">>, <<"n","o","d","e","_","m","o","d","u","l","e","s">>,
       <<"p","k","g",".","j","s">> >>,
    << <<"d","e","l","e","t","e","d",".","p","y">> >>,
    << <<"l","o","g","o",".","P","N","G">> >> >>

\* What git does in the root: it cannot be started, it exits non-zero (with or
\* without a partial listing on stdout), or it lists the staged names.  git
\* prints the names relative to the top level of the work tree; prefix is the
\* path of the root below that top level.
DirGitWorlds == {
    [status |-> "oserror", names |-> <<>>, prefix |-> <<>>],
    [status |-> "nonzero", names |-> <<>>, prefix |-> <<>>],
    [status |-> "nonzero", names |-> DirStagedNames, prefix |-> <<>>],
    [status |-> "ok", names |-> <<>>, prefix |-> <<>>],
    [status |-> "ok", names |-> DirStagedNames, prefix |-> <<>>] }

\* A root that is the directory sub of the work tree: sub/a.py is staged, which
\* is a.py under the root, and the root holds an unstaged sub/a.py of its own.
SubRoot == Root \o << <<"s","u","b">> >>

SubTree == <<
    File(<< <<"a",".","p","y">> >>, <<LAwsBare>>),
    Entry(<< <<"s","u","b">> >>, FALSE, FALSE, FALSE, FALSE, <<>>),
    File(<< <<"s","u","b">>, <<"a",".","p","y">> >>, <<LApiHigh>>) >>

SubGit ==
    [status |-> "ok", names |-> << << <<"s","u","b">>, <<"a",".","p","y">> >> >>,
     prefix |-> << <<"s","u","b">> >>]

\* A root that lies inside a directory named venv: /venv/proj, a work tree of
\* its own with a.py staged.
VenvRoot == << <<"/">>, <<"v","e","n","v">>, <<"p","r","o","j">> >>

VenvTree == <<
    File(<< <<"a",".","p","y">> >>, <<LAwsBare>>),
    Entry(<< <<"s","r","c">> >>, FALSE, FALSE, FALSE, FALSE, <<>>),
    File(<< <<"s","r","c">>, <<".","e","n","v">> >>, <<LAwsQuoted>>) >>

VenvGit ==
    [status |-> "ok", names |-> << << <<"a",".","p","y">> >> >>, prefix |-> <<>>]

DirWorlds ==
    {[target |-> "dir", root |-> Root, tree |-> t, gitignore |-> gi, git |-> g,
      gl |-> NoGitleaks] :
        t \in DirTrees, gi \in {None, Some(GitignoreLines)}, g \in DirGitWorlds}
    \cup
    {[target |-> "dir", root |-> VenvRoot, tree |-> VenvTree, gitignore |-> None,
      git |-> VenvGit, gl |-> NoGitleaks]}
    \cup
    {[target |-> "dir", root |-> SubRoot, tree |-> SubTree, gitignore |-> None,
      git |-> SubGit, gl |-> NoGitleaks]}
    \cup
    {[target |-> "file", root |-> Root \o DirBase[1].rel,
      tree |-> << [DirBase[1] EXCEPT !.rel = <<>>] >>, gitignore |-> None,
      git |-> [status |-> "ok", names |-> <<>>, prefix |-> <<>>], gl |-> NoGitleaks]}

DirCalls ==
    [fn : {"scan_directory"}, staged_only : BOOLEAN, no_git : BOOLEAN,
     respect_gitignore : BOOLEAN]

----------------------------------------------------------------------------
(* monitor.py, notifier.py, db.py: the patrol of public repositories *)

\* db: whether the repository was scanned in the last 24 hours, and the
\* (repo_url, fingerprint) pairs of the notifications table
was_scanned_recently(db, repo_url) == repo_url \in db.scanned_recently
mark_scanned(db, repo_url) == [db EXCEPT !.scanned_recently = @ \cup {repo_url}]
was_notified(db, repo_url, fingerprint) == <<repo_url, fingerprint>> \in db.notifications
mark_notified(db, repo_url, fs) ==
    [db EXCEPT !.notifications = @ \cup {<<repo_url, fs[i].fingerprint>> : i \in 1..Len(fs)}]

\* str(Path(file).relative_to(temp_dir)): None when file is not below temp_dir
relative_to(file, temp_dir) ==
    IF startswith(file, temp_dir \o <<"/">>)
    THEN Some(SubSeq(file, Len(temp_dir) + 2, Len(file)))
    ELSE None

\* the directory tempfile.mkdtemp(prefix="gitshield_") makes, and the clone
\* of the repository in it
TempDir(name) == << <<"/">>, <<"t","m","p">>, <<"g","i","t","s","h","i","e","l","d","_">> \o name >>

CloneWorld(repo, name) ==
    [target |-> "dir", root |-> TempDir(name), tree |-> repo.tree, gitignore |-> None,
     git |-> [status |-> "oserror", names |-> <<>>], gl |-> NoGitleaks]

\* clone_and_scan after scan_path returned r: every finding's file is made
\* relative to temp_dir and the repository is marked as scanned; an exception
\* of scan_path or of relative_to ends in "except Exception: return []"
EnrichFindings(repo, db, r, temp_dir) ==
    IF r.raised # "none" THEN [findings |-> <<>>, db |-> db]
    ELSE IF \E i \in 1..Len(r.value) : relative_to(r.value[i].file, temp_dir) = None
    THEN [findings |-> <<>>, db |-> db]
    ELSE [findings |->
               [i \in 1..Len(r.value) |->
                   [r.value[i] EXCEPT !.file = relative_to(@, temp_dir)[1]]],
          db |-> mark_scanned(db, repo.url)]

\* clone_and_scan: the findings returned and the db after the call; name is
\* the random part of the temporary directory, clone what git clone does
clone_and_scan(repo, db, name, clone) ==
    IF was_scanned_recently(db, repo.url) THEN [findings |-> <<>>, db |-> db]
    ELSE IF clone = "timeout" THEN [findings |-> <<>>, db |-> db]
    ELSE IF clone = "nonzero" THEN [findings |-> <<>>, db |-> mark_scanned(db, repo.url)]
    ELSE EnrichFindings(repo, db,
                        scan_path(CloneWorld(repo, name),
                                  [staged_only |-> FALSE, no_git |-> TRUE]),
                        PathStr(TempDir(name)))

\* send_email and create_github_issue: what they return or raise, and whether
\* the notification went out and was recorded; answer is what the service
\* answers
send_email(dry_run, has_key, answer) ==
    IF ~has_key THEN [raised |-> "NotifierError", value |-> FALSE, sent |-> FALSE]
    ELSE IF dry_run THEN [raised |-> "none", value |-> TRUE, sent |-> FALSE]
    ELSE IF answer = "ok" THEN [raised |-> "none", value |-> TRUE, sent |-> TRUE]
    ELSE [raised |-> "NotifierError", value |-> FALSE, sent |-> FALSE]

create_github_issue(dry_run, has_token, answer) ==
    IF ~has_token THEN [raised |-> "NotifierError", value |-> FALSE, sent |-> FALSE]
    ELSE IF dry_run THEN [raised |-> "none", value |-> TRUE, sent |-> FALSE]
    ELSE IF answer = "ok" THEN [raised |-> "none", value |-> TRUE, sent |-> TRUE]
    ELSE IF answer = "forbidden" THEN [raised |-> "none", value |-> FALSE, sent |-> FALSE]
    ELSE [raised |-> "NotifierError", value |-> FALSE, sent |-> FALSE]

\* notify: the result, the findings a notification went out for, and the db
\* after the call
notify(repo, fs, db, dry_run, env) ==
    LET new_findings == SelectSeq(fs, LAMBDA f : ~was_notified(db, repo.url, f.fingerprint)) IN
    IF new_findings = <<>>
    THEN [skipped |-> TRUE, email |-> FALSE, github_issue |-> FALSE,
          notified |-> <<>>, db |-> db]
    ELSE LET e == IF repo.author_email
                  THEN send_email(dry_run, env.resend_key, env.email)
                  ELSE [raised |-> "none", value |-> FALSE, sent |-> FALSE]
             g == create_github_issue(dry_run, env.github_token, env.issue)
         IN  [skipped |-> FALSE, email |-> e.value, github_issue |-> g.value,
              notified |-> IF e.sent \/ g.sent THEN new_findings ELSE <<>>,
              db |-> IF e.sent \/ g.sent
                     THEN mark_notified(db, repo.url, new_findings) ELSE db]

\* the patrol loop after clone_and_scan returned cs: notify when there are
\* findings
NotifyFindings(repo, cs, dry_run, env) ==
    IF cs.findings = <<>>
    THEN [findings |-> <<>>, skipped |-> FALSE, notified |-> <<>>, db |-> cs.db]
    ELSE LET n == notify(repo, cs.findings, cs.db, dry_run, env) IN
         [findings |-> cs.findings, skipped |-> n.skipped, notified |-> n.notified,
          db |-> n.db]

\* one repository of the patrol loop: clone_and_scan, then notify
patrol(repo, db, name, clone, dry_run, env) ==
    NotifyFindings(repo, clone_and_scan(repo, db, name, clone), dry_run, env)

----------------------------------------------------------------------------
(* The state machines: the initial state holds the arguments of one call   *)
(* and the world it runs in, and the call is one step.                     *)

NoWorld ==
    [target |-> "missing", root |-> Root, tree |-> <<>>, gitignore |-> None,
     git |-> [status |-> "oserror", names |-> <<>>], gl |-> NoGitleaks]
NoFlags == [staged_only |-> FALSE, no_git |-> FALSE]
NoOutcome ==
    [raised |-> "none", native_ran |-> FALSE, gitleaks_ran |-> FALSE,
     native |-> <<>>, external |-> <<>>, value |-> <<>>]
NoCall == [fn |-> "none"]
NoRet == [value |-> <<>>]

InitText ==
    /\ op = "none"
    /\ text \in Texts
    /\ filename \in Filenames
    /\ offset \in 0..MaxOffset
    /\ findings = <<>>
    /\ world = NoWorld
    /\ flags = NoFlags
    /\ outcome = NoOutcome
    /\ call = NoCall
    /\ ret = NoRet

\* scan_text(text, filename, line_offset)
ScanText ==
    /\ op = "none"
    /\ op' = "scan_text"
    /\ findings' = scan_text(text, filename, offset)
    /\ UNCHANGED <<text, filename, offset, world, flags, outcome, call, ret>>

\* scan_content(content, context): line_offset is scan_text's default, 0
ScanContent ==
    /\ op = "none"
    /\ op' = "scan_content"
    /\ offset' = 0
    /\ findings' = scan_content(text, filename)
    /\ UNCHANGED <<text, filename, world, flags, outcome, call, ret>>

NextText == ScanText \/ ScanContent

SpecText == InitText /\ [][NextText]_vars

Init ==
    /\ op = "none"
    /\ text = <<>>
    /\ filename = <<>>
    /\ offset = 0
    /\ findings = <<>>
    /\ world \in Worlds
    /\ flags \in Flags
    /\ outcome = NoOutcome
    /\ call = NoCall
    /\ ret = NoRet

\* scan_path(path, staged_only, no_git)
ScanPath ==
    /\ op = "none"
    /\ op' = "scan_path"
    /\ outcome' = scan_path(world, flags)
    /\ UNCHANGED <<text, filename, offset, findings, world, flags, call, ret>>

Next == ScanPath

Spec == Init /\ [][Next]_vars

InitDir ==
    /\ op = "none"
    /\ text = <<>>
    /\ filename = <<>>
    /\ offset = 0
    /\ findings = <<>>
    /\ world \in DirWorlds
    /\ flags = NoFlags
    /\ outcome = NoOutcome
    /\ call \in DirCalls
    /\ ret = NoRet

\* scan_directory(path, staged_only, no_git, respect_gitignore): every error of
\* git and of the files is caught inside, so the call returns
ScanDirectory ==
    /\ op = "none"
    /\ call.fn = "scan_directory"
    /\ op' = "scan_directory"
    /\ ret' = [raised |-> "none",
               value |-> scan_directory(world, call.staged_only, call.no_git,
                                        call.respect_gitignore),
               events |-> scan_directory_events(world, call.staged_only, call.no_git,
                                                call.respect_gitignore)]
    /\ UNCHANGED <<text, filename, offset, findings, world, flags, outcome, call>>

NextDir == ScanDirectory

SpecDir == InitDir /\ [][NextDir]_vars

\* The files scan_file is called on: one path, and every combination of what
\* the file system can answer for it.
FileTexts == {
    <<>>, <<LAwsBare>>, <<LPlain, LApiHigh>>, <<LIgnoredHash>>,
    <<LPwdAtThreshold, LAwsQuoted>> }

FileEntries ==
    {EntryAt(<<>>, is_file, probe_ok, nul_at, read_ok, lines) :
        is_file \in BOOLEAN, probe_ok \in BOOLEAN,
        nul_at \in {0, 1, _probe_size, _probe_size + 1},
        read_ok \in BOOLEAN, lines \in FileTexts}

FileCalls ==
    [fn : {"scan_file"}, path : {Root \o << <<"f",".","t","x","t">> >>},
     entry : FileEntries]

InitFile ==
    /\ op = "none"
    /\ text = <<>>
    /\ filename = <<>>
    /\ offset = 0
    /\ findings = <<>>
    /\ world = NoWorld
    /\ flags = NoFlags
    /\ outcome = NoOutcome
    /\ call \in FileCalls
    /\ ret = NoRet

\* scan_file(filepath)
ScanFile ==
    /\ op = "none"
    /\ call.fn = "scan_file"
    /\ op' = "scan_file"
    /\ ret' = [raised |-> "none",
               value |-> scan_file(call.path, call.entry),
               events |-> scan_file_events(call.path, call.entry)]
    /\ UNCHANGED <<text, filename, offset, findings, world, flags, outcome, call>>

NextFile == ScanFile

SpecFile == InitFile /\ [][NextFile]_vars

\* The relative paths and the patterns _matches_gitignore is called with.
RelPaths == {
    << <<"a",".","p","y">> >>,
    << <<"b","u","i","l","d">> >>,
    << <<"d","e","b","u","g",".","l","o","g">> >>,
    << <<"s","r","c">>, <<"c","o","n","f","i","g",".","p","y">> >>,
    << <<"b","u","i","l","d">>, <<"g","e","n","e","r","a","t","e","d",".","p","y">> >>,
    << <<"s","r","c">>, <<"b","u","i","l","d">>, <<"o","u","t",".","l","o","g">> >> }

GlobPatterns == {
    <<>>,
    <<"/">>,
    <<"s","r","c">>,
    <<"b","u","i","l","d","/">>,
    <<"b","u","i","l","d","/","/">>,
    <<"b","?","i","l","d","/">>,
    <<"*",".","l","o","g">>,
    <<"s","r","c","/","*",".","p","y">>,
    <<"c","o","n","f","i","g",".","p","y">> }

\* The pattern lists of at most MaxPatterns patterns.
PatternLists == UNION {[1..n -> GlobPatterns] : n \in 0..MaxPatterns}

MatchCalls == [fn : {"_matches_gitignore"}, rel_path : RelPaths, patterns : PatternLists]

InitMatch ==
    /\ op = "none"
    /\ text = <<>>
    /\ filename = <<>>
    /\ offset = 0
    /\ findings = <<>>
    /\ world = NoWorld
    /\ flags = NoFlags
    /\ outcome = NoOutcome
    /\ call \in MatchCalls
    /\ ret = NoRet

\* _matches_gitignore(rel_path, ignore_patterns)
MatchesGitignore ==
    /\ op = "none"
    /\ call.fn = "_matches_gitignore"
    /\ op' = "_matches_gitignore"
    /\ ret' = [raised |-> "none",
               value |-> _matches_gitignore(call.rel_path, call.patterns)]
    /\ UNCHANGED <<text, filename, offset, findings, world, flags, outcome, call>>

NextMatch == MatchesGitignore

SpecMatch == InitMatch /\ [][NextMatch]_vars

\* The findings, ignore sets and configurations filter_findings is called with.
FilterFindingSet == {
    NativeFinding(1, LAwsBare[1].val, <<"s","r","c","/","a","p","p",".","p","y">>, 1),
    NativeFinding(3, Group0(LPwdAtThreshold[1]), <<"s","r","c","/","a","p","p",".","p","y">>, 2),
    NativeFinding(3, Group0(LPwdAtThreshold[1]),
        <<"t","e","s","t","s","/","t","e","s","t","_","a","p","p",".","t","e","s","t",".","p","y">>, 7),
    NativeFinding(2, Group0(LApiHigh[1]), <<"R","E","A","D","M","E",".","m","d">>, 3) }

\* The lists of at most MaxFindings findings.
FindingLists == UNION {[1..n -> FilterFindingSet] : n \in 0..MaxFindings}

FpApp1 == <<"s","r","c","/","a","p","p",".","p","y">> \o Colon \o PATTERNS[1].id \o Colon \o <<"1">>
FpReadme == <<"R","E","A","D","M","E",".","m","d">> \o Colon \o PATTERNS[2].id \o Colon \o <<"3">>

IgnoreSets == { {}, {FpApp1}, {FpReadme, <<"d","r","o","p","-","m","e">>} }

Configs ==
    {None} \cup
    {Some([allowlist_paths |-> ps, allowlist_rules |-> rs, allowlist_fingerprints |-> fps]) :
        ps \in { <<>>,
                 << <<"*",".","t","e","s","t",".","*">> >>,
                 << <<"*",".","t","x","t">>, <<"s","r","c","/","*">> >>,
                 << <<"a","p","p",".","p","y">> >> },
        rs \in { <<>>, <<PATTERNS[3].id>> },
        fps \in { {}, {FpApp1} }}

FilterCalls ==
    [fn : {"filter_findings"}, findings : FindingLists, ignores : IgnoreSets,
     config : Configs]

InitFilter ==
    /\ op = "none"
    /\ text = <<>>
    /\ filename = <<>>
    /\ offset = 0
    /\ findings = <<>>
    /\ world = NoWorld
    /\ flags = NoFlags
    /\ outcome = NoOutcome
    /\ call \in FilterCalls
    /\ ret = NoRet

\* filter_findings(findings, ignores, config)
FilterFindings ==
    /\ op = "none"
    /\ call.fn = "filter_findings"
    /\ op' = "filter_findings"
    /\ ret' = [raised |-> "none",
               value |-> filter_findings(call.findings, call.ignores, call.config)]
    /\ UNCHANGED <<text, filename, offset, findings, world, flags, outcome, call>>

NextFilter == FilterFindings

SpecFilter == InitFilter /\ [][NextFilter]_vars

\* The repositories, ignore files and TOML files the scan command is run on.
CliGitleaks ==
    {NoGitleaks} \cup
    {gl \in GitleaksWorlds :
        /\ gl.installed /\ gl.installed_again
        /\ gl.items \in {<<>>, <<ItemHistory>>}
        /\ gl.report \in {"missing", "invalid", "list"}
        /\ gl.report = "list" => gl.items # <<>>}

CliWorlds ==
    {w \in Worlds :
        /\ w.gl \in CliGitleaks
        /\ w.target \in {"missing", "file", "dir"}
        /\ w.target = "file" => w.root = Root \o RichTree[1].rel
        /\ w.target = "dir" => /\ w.tree \in {<<>>, RichTree}
                               /\ w.git.status # "oserror"}

FpA1 == PathStr(Root \o RichTree[1].rel) \o Colon \o PATTERNS[1].id \o Colon \o <<"1">>

IgnoreFiles == {
    None,
    Some(<< <<"#"," ","f","a","l","s","e"," ","p","o","s","i","t","i","v","e","s">>,
            <<>>,
            <<" ">> \o FpA1 \o <<" ">> >>),
    Some(<< ItemHistory.Fingerprint >>) }

TomlFiles == {
    [kind |-> "missing", data |-> <<>>],
    [kind |-> "malformed", data |-> <<>>],
    [kind |-> "ok", data |-> [scan |-> [scan_tests |-> FALSE]]],
    [kind |-> "ok", data |-> [allowlist |-> [rules |-> <<PATTERNS[1].id>>]]],
    [kind |-> "ok", data |-> [allowlist |-> [paths |-> << <<"*",".","p","y">> >>]]],
    [kind |-> "ok", data |-> [allowlist |-> [fingerprints |-> <<FpA1>>]]] }

CliCalls ==
    [fn : {"scan"}, staged : BOOLEAN, no_git : BOOLEAN, as_json : BOOLEAN,
     sarif : BOOLEAN, quiet : BOOLEAN, ignore_file : IgnoreFiles, toml : TomlFiles]

InitCli ==
    /\ op = "none"
    /\ text = <<>>
    /\ filename = <<>>
    /\ offset = 0
    /\ findings = <<>>
    /\ world \in CliWorlds
    /\ flags = NoFlags
    /\ outcome = NoOutcome
    /\ call \in CliCalls
    /\ ret = NoRet

\* gitshield scan PATH [--staged] [--no-git] [--json] [--sarif] [--quiet]
ScanCommand ==
    /\ op = "none"
    /\ call.fn = "scan"
    /\ op' = "scan"
    /\ outcome' = scan_path(world, [staged_only |-> call.staged, no_git |-> call.no_git])
    /\ ret' = scan(world, call)
    /\ UNCHANGED <<text, filename, offset, findings, world, flags, call>>

NextCli == ScanCommand

SpecCli == InitCli /\ [][NextCli]_vars

\* The paths, contents and inputs the hook is called with.
HookPaths == {
    <<>>,
    <<"s","r","c","/","m","a","i","n",".","p","y">>,
    <<"/","a","p","p","/",".","e","n","v">>,
    <<"/","a","p","p","/",".","e","n","v",".","e","x","a","m","p","l","e">>,
    <<"f","i","x","t","u","r","e","s","/","i","d",".","p","e","m">>,
    <<"s","r","c","/","a","u","t","h",".","t","e","s","t",".","j","s">>,
    <<"s","r","c","/","A","U","T","H",".","T","E","S","T",".","J","S">>,
    <<"/","a","p","p","/","T","e","s","t","D","a","t","a","/","S","e","c","r","e","t",".","t","x","t">>,
    <<"m","y",".","k","e","y">> }

HookTexts == {
    <<>>, <<LPlain>>, <<LAwsBare>>, <<LPwdAtThreshold>>, <<LPlain, LAwsAndPwd>>,
    <<LIgnoredHash>> }

ToolInputs ==
    {NotAnObject, Object(<<>>)}
    \cup {Object([file_path |-> p, content |-> t]) : p \in HookPaths, t \in HookTexts}
    \cup {Object([path |-> p, new_string |-> t]) : p \in HookPaths, t \in HookTexts}
    \cup {Object([file_path |-> p, content |-> <<>>, new_string |-> t]) :
                p \in HookPaths, t \in HookTexts}
    \cup {Object([content |-> t]) : t \in HookTexts}
    \cup {Object([command |-> t]) : t \in HookTexts}

ToolNames == {"Write", "Edit", "Bash", "Read", ""}

HookInputs ==
    {NotAnObject, Object(<<>>)}
    \cup {Object([tool_name |-> n]) : n \in ToolNames}
    \cup {Object([tool_input |-> i]) : i \in ToolInputs}
    \cup {Object([tool_name |-> n, tool_input |-> i]) : n \in ToolNames, i \in ToolInputs}

\* what stdin gives: a read error, text that is no JSON, or a JSON value
Stdins ==
    {[read |-> "error", parse |-> "error", value |-> NotAnObject],
     [read |-> "ok", parse |-> "error", value |-> NotAnObject]}
    \cup {[read |-> "ok", parse |-> "ok", value |-> v] : v \in HookInputs}

HookCalls ==
    {[fn |-> "handle_hook", input_data |-> v] : v \in HookInputs \ {NotAnObject}}
    \cup {[fn |-> "main", stdin |-> s] : s \in Stdins}

InitHook ==
    /\ op = "none"
    /\ text = <<>>
    /\ filename = <<>>
    /\ offset = 0
    /\ findings = <<>>
    /\ world = NoWorld
    /\ flags = NoFlags
    /\ outcome = NoOutcome
    /\ call \in HookCalls
    /\ ret = NoRet

\* handle_hook(input_data)
HandleHook ==
    /\ op = "none"
    /\ call.fn = "handle_hook"
    /\ op' = "handle_hook"
    /\ ret' = handle_hook(call.input_data)
    /\ UNCHANGED <<text, filename, offset, findings, world, flags, outcome, call>>

\* gitshield claude-hook: main()
HookMain ==
    /\ op = "none"
    /\ call.fn = "main"
    /\ op' = "main"
    /\ ret' = main(call.stdin)
    /\ UNCHANGED <<text, filename, offset, findings, world, flags, outcome, call>>

NextHook == HandleHook \/ HookMain

SpecHook == InitHook /\ [][NextHook]_vars

\* scan_path step by step, with the processes it waits for.  subprocess.run
\* is called without a timeout (engine.py, scanner.py), so the wait for a
\* process ends only when the process exits; the call says whether the git
\* and the gitleaks process ever exit.
ProcCalls == [fn : {"scan_path"}, git_exits : BOOLEAN, gitleaks_exits : BOOLEAN]

\* the scan lists the staged files with git
GitRuns(w, fl) == w.target = "dir" /\ fl.staged_only /\ w.git.status # "oserror"

\* the scan starts the gitleaks process
GitleaksRuns(w) == _has_gitleaks(w.gl) /\ w.gl.installed_again /\ w.gl.run # "oserror"

\* subprocess.run(cmd, capture_output=True, text=True, ...): the process the
\* scan waits for and the timeout argument of the call, which is not given
Run(process) == [value |-> <<>>, process |-> process, timeout |-> None]

\* what scan_path has when it ends
Ended(w, fl) ==
    IF scan_path(w, fl).raised = "none" THEN "returned" ELSE "raised"

InitProc ==
    /\ op = "none"
    /\ text = <<>>
    /\ filename = <<>>
    /\ offset = 0
    /\ findings = <<>>
    /\ world \in CliWorlds
    /\ flags \in Flags
    /\ outcome = NoOutcome
    /\ call \in ProcCalls
    /\ ret = NoRet

\* scan_path up to the native run: the path check, then the walk, or the
\* start of git diff --cached for the staged files
StartScan ==
    /\ op = "none"
    /\ call.fn = "scan_path"
    /\ op' = IF ~PathExists(world) THEN "raised"
             ELSE IF GitRuns(world, flags) THEN "wait_git"
             ELSE "native_done"
    /\ outcome' = IF ~PathExists(world) THEN scan_path(world, flags) ELSE outcome
    /\ findings' = IF PathExists(world) /\ ~GitRuns(world, flags)
                   THEN NativeRun(world, flags) ELSE findings
    /\ ret' = IF PathExists(world) /\ GitRuns(world, flags) THEN Run("git") ELSE ret
    /\ UNCHANGED <<text, filename, offset, world, flags, call>>

\* subprocess.run returns when git exits: the staged files are scanned
GitExits ==
    /\ op = "wait_git"
    /\ call.git_exits
    /\ op' = "native_done"
    /\ findings' = NativeRun(world, flags)
    /\ UNCHANGED <<text, filename, offset, world, flags, outcome, call, ret>>

\* after the native run: gitleaks is started, or the scan ends without it
RunGitleaks ==
    /\ op = "native_done"
    /\ op' = IF GitleaksRuns(world) THEN "wait_gitleaks" ELSE Ended(world, flags)
    /\ outcome' = IF GitleaksRuns(world) THEN outcome ELSE scan_path(world, flags)
    /\ ret' = IF GitleaksRuns(world) THEN Run("gitleaks") ELSE ret
    /\ UNCHANGED <<text, filename, offset, findings, world, flags, call>>

\* subprocess.run returns when gitleaks exits: the report is read and merged
GitleaksExits ==
    /\ op = "wait_gitleaks"
    /\ call.gitleaks_exits
    /\ op' = Ended(world, flags)
    /\ outcome' = scan_path(world, flags)
    /\ UNCHANGED <<text, filename, offset, findings, world, flags, call, ret>>

NextProc == StartScan \/ GitExits \/ RunGitleaks \/ GitleaksExits

SpecProc == InitProc /\ [][NextProc]_vars

\* The pre-commit hooks a repository starts with, and whether .git/hooks
\* exists.
InitialHooks == {
    None,
    Some(<<>>),
    Some(<<"#","!","/","b","i","n","/","s","h","\n">>),
    Some(<<"#","!","/","b","i","n","/","s","h","\n","n","p","m"," ","t","e","s","t","\n">>),
    Some(<<"#","!","/","b","i","n","/","s","h","\n","n","p","m"," ","t","e","s","t">>),
    Some(<<"#","!","/","b","i","n","/","b","a","s","h","\n","\n","m","a","k","e"," ","l","i","n","t","\n","\n">>),
    Some(<<"#","!","/","b","i","n","/","s","h","\n","#"," ","g","i","t","s","h","i","e","l","d"," ","b","y"," ","h","a","n","d","\n","g","i","t","s","h","i","e","l","d"," ","s","c","a","n","\n">>) }

GitHookCalls == [fn : {"hook"}, hooks_dir : BOOLEAN, initial : InitialHooks]

InitGitHook ==
    /\ op = "none"
    /\ text = <<>>
    /\ filename = <<>>
    /\ offset = 0
    /\ findings = <<>>
    /\ world = NoWorld
    /\ flags = NoFlags
    /\ outcome = NoOutcome
    /\ call \in GitHookCalls
    /\ ret = [hook |-> call.initial, exit |-> 0, history |-> <<>>]

\* gitshield hook install
HookInstall ==
    /\ call.fn = "hook"
    /\ Len(ret.history) < MaxCommands
    /\ op' = "hook_install"
    /\ ret' = [hook |-> hook_install(call.hooks_dir, ret.hook).hook,
               exit |-> hook_install(call.hooks_dir, ret.hook).exit,
               history |-> Append(ret.history, "install")]
    /\ UNCHANGED <<text, filename, offset, findings, world, flags, outcome, call>>

\* gitshield hook uninstall
HookUninstall ==
    /\ call.fn = "hook"
    /\ Len(ret.history) < MaxCommands
    /\ op' = "hook_uninstall"
    /\ ret' = [hook |-> hook_uninstall(ret.hook).hook,
               exit |-> hook_uninstall(ret.hook).exit,
               history |-> Append(ret.history, "uninstall")]
    /\ UNCHANGED <<text, filename, offset, findings, world, flags, outcome, call>>

NextGitHook == HookInstall \/ HookUninstall

SpecGitHook == InitGitHook /\ [][NextGitHook]_vars

\* The settings files the commands start from.
UserHook == [type |-> "command", command |-> <<"p","r","e","t","t","i","e","r"," ","-","-","c","h","e","c","k">>]
LintHook == [type |-> "command", command |-> <<"e","s","l","i","n","t">>, timeout |-> 10]
PostGroup == [matcher |-> <<"W","r","i","t","e">>, hooks |-> <<LintHook>>]

InitialSettings == {
    [kind |-> "missing", settings |-> <<>>],
    [kind |-> "malformed", settings |-> <<>>],
    [kind |-> "ok", settings |-> <<>>],
    [kind |-> "ok", settings |-> [model |-> <<"o","p","u","s">>]],
    [kind |-> "ok", settings |-> [hooks |-> [PostToolUse |-> <<PostGroup>>]]],
    [kind |-> "ok", settings |-> [hooks |-> [PreToolUse |-> <<>>]]],
    [kind |-> "ok", settings |->
        [hooks |-> [PreToolUse |-> << [matcher |-> <<"B","a","s","h">>, hooks |-> <<UserHook>>] >>]]],
    [kind |-> "ok", settings |->
        [hooks |-> [PreToolUse |-> << [matcher |-> <<"B","a","s","h">>, hooks |-> <<UserHook, LintHook>>],
                                      [matcher |-> <<"E","d","i","t">>],
                                      [matcher |-> <<"W","r","i","t","e">>, hooks |-> <<LintHook>>] >>]]],
    [kind |-> "ok", settings |-> [hooks |-> [PreToolUse |-> <<hook_group>>]]],
    [kind |-> "ok", settings |->
        [model |-> <<"o","p","u","s">>,
         hooks |-> [PostToolUse |-> <<PostGroup>>,
                    PreToolUse |-> << [matcher |-> <<"B","a","s","h">>, hooks |-> <<UserHook>>],
                                      hook_group >>]]],
    [kind |-> "ok", settings |->
        [hooks |-> [PreToolUse |->
            << [matcher |-> <<"W","r","i","t","e","|","E","d","i","t">>,
                hooks |-> << LintHook,
                             [type |-> "command", command |-> <<"/","u","s","r","/","b","i","n","/","g","i","t","s","h","i","e","l","d","-","c","l","a","u","d","e","-","h","o","o","k">>],
                             UserHook >>] >>]]] }

ClaudeCalls == [fn : {"claude"}, initial : InitialSettings]

InitClaude ==
    /\ op = "none"
    /\ text = <<>>
    /\ filename = <<>>
    /\ offset = 0
    /\ findings = <<>>
    /\ world = NoWorld
    /\ flags = NoFlags
    /\ outcome = NoOutcome
    /\ call \in ClaudeCalls
    /\ ret = [file |-> call.initial, history |-> <<>>]

\* gitshield claude install
ClaudeInstall ==
    /\ call.fn = "claude"
    /\ Len(ret.history) < MaxCommands
    /\ op' = "install_hook"
    /\ ret' = [file |-> install_hook(ret.file), history |-> Append(ret.history, "install")]
    /\ UNCHANGED <<text, filename, offset, findings, world, flags, outcome, call>>

\* gitshield claude uninstall
ClaudeUninstall ==
    /\ call.fn = "claude"
    /\ Len(ret.history) < MaxCommands
    /\ op' = "uninstall_hook"
    /\ ret' = [file |-> uninstall_hook(ret.file), history |-> Append(ret.history, "uninstall")]
    /\ UNCHANGED <<text, filename, offset, findings, world, flags, outcome, call>>

NextClaude == ClaudeInstall \/ ClaudeUninstall

SpecClaude == InitClaude /\ [][NextClaude]_vars

\* The repository the patrol meets, unchanged between the runs, the names
\* mkdtemp may draw and what the services answer.
PatrolUrl == <<"h","t","t","p","s",":","/","/","g","i","t","h","u","b",".","c","o","m","/","o","/","r">>

\* the files of the repository: one AWS key, or one AWS key and one API key
PatrolTrees ==
    { << File(<< <<"a",".","p","y">> >>, <<LAwsBare, LPlain>>),
         File(<< <<"b",".","p","y">> >>, <<LPlain>>) >>,
      << File(<< <<"a",".","p","y">> >>, <<LAwsBare, LPlain>>),
         File(<< <<"b",".","p","y">> >>, <<LApiHigh>>) >> }

\* RepoInfo: author_email says whether the last commit has an author email
PatrolRepos == [url : {PatrolUrl}, author_email : BOOLEAN, tree : PatrolTrees]

TempNames == { <<"a","1">>, <<"b","2">> }

\* what the mail service and the GitHub API answer to one request
PatrolAnswers == [email : {"ok", "fail"}, issue : {"ok", "forbidden", "fail"}]

\* RESEND_API_KEY and GITHUB_TOKEN of the environment, set or not
PatrolCalls ==
    [fn : {"patrol"}, repo : PatrolRepos, resend_key : BOOLEAN, github_token : BOOLEAN]

EmptyDb == [scanned_recently |-> {}, notifications |-> {}]

InitPatrol ==
    /\ op = "none"
    /\ text = <<>>
    /\ filename = <<>>
    /\ offset = 0
    /\ findings = <<>>
    /\ world = NoWorld
    /\ flags = NoFlags
    /\ outcome = NoOutcome
    /\ call \in PatrolCalls
    /\ ret = [db |-> EmptyDb, runs |-> 0, sent |-> <<>>, skipped |-> FALSE,
              findings |-> <<>>]

\* what the session has seen after a run that returned p
AfterRun(r, p) ==
    [db |-> p.db, runs |-> r.runs + 1,
     sent |-> IF p.notified = <<>> THEN r.sent ELSE Append(r.sent, p.notified),
     skipped |-> p.skipped, findings |-> p.findings]

\* gitshield patrol --repo o/r: one run over the repository
PatrolRun ==
    /\ call.fn = "patrol"
    /\ ret.runs < MaxRuns
    /\ \E name \in TempNames, clone \in {"ok", "nonzero", "timeout"},
          dry_run \in BOOLEAN, answer \in PatrolAnswers :
        ret' = AfterRun(ret,
                        patrol(call.repo, ret.db, name, clone, dry_run,
                               [resend_key |-> call.resend_key,
                                github_token |-> call.github_token,
                                email |-> answer.email, issue |-> answer.issue]))
    /\ op' = "patrol"
    /\ UNCHANGED <<text, filename, offset, findings, world, flags, outcome, call>>

\* more than 24 hours pass since the last scan of the repository
DayPasses ==
    /\ call.fn = "patrol"
    /\ ret.db.scanned_recently # {}
    /\ ret' = [ret EXCEPT !.db.scanned_recently = {}]
    /\ op' = "day_passes"
    /\ UNCHANGED <<text, filename, offset, findings, world, flags, outcome, call>>

NextPatrol == PatrolRun \/ DayPasses

SpecPatrol == InitPatrol /\ [][NextPatrol]_vars

----------------------------------------------------------------------------
(* Properties of the line scanner (checked under SpecText) *)

Called == op # "none"

\* the findings reported for line number n, in the order returned
FindingsOfLine(n) == SelectSeq(findings, LAMBDA f : f.line = n)

\* the findings of pattern p reported for line number n
FindingsOfRule(n, p) == SelectSeq(findings, LAMBDA f : f.line = n /\ f.rule_id = PATTERNS[p].id)

\* the line holds one of the three suppression markers
Suppressed(line) == \E marker \in _IGNORE_MARKERS : Contains(LineStr(line), marker)

\* the leftmost occurrence of pattern p on the line (the line has one)
Leftmost(p, line) == CHOOSE i \in Occs(p, line) : \A j \in Occs(p, line) : i <= j

Thresholded(p) == PATTERNS[p].entropy_threshold # None
Threshold(p) == PATTERNS[p].entropy_threshold[1]

\* C4: a line holding any of the markers '# gitshield:ignore', '// gitshield:ignore',
\* '-- gitshield:ignore' contributes no finding, and every other line of the text
\* contributes what the patterns find on it.
C4_IgnoredLineYieldsNothing ==
    Called =>
        \A i \in 1..Len(text) :
            FindingsOfLine(i + offset) =
                IF Suppressed(text[i]) THEN <<>>
                ELSE LineFindings(1, text[i], filename, i + offset)

\* C4 happens: a suppressed line holding a match that passes its gate, beside a
\* line that is reported.
C4_Witness ==
    /\ Called
    /\ \E i, j \in 1..Len(text) :
        /\ Suppressed(text[i])
        /\ \E p \in 1..Len(PATTERNS) :
            /\ Occs(p, text[i]) # {}
            /\ ~Thresholded(p)
        /\ FindingsOfLine(i + offset) = <<>>
        /\ ~Suppressed(text[j])
        /\ FindingsOfLine(j + offset) # <<>>

\* C5: on a line without a marker, a finding of pattern p is emitted iff p matches
\* the line and p has no threshold or the entropy of the matched substring is at
\* least the threshold; the finding's entropy is that of the matched substring.
C5_GateOnMatchedSubstring ==
    Called =>
        \A i \in 1..Len(text) : \A p \in 1..Len(PATTERNS) :
            ~Suppressed(text[i]) =>
                LET fs == FindingsOfRule(i + offset, p)
                    line == text[i]
                IN  /\ (fs # <<>>) <=>
                            /\ Occs(p, line) # {}
                            /\ \/ ~Thresholded(p)
                               \/ entropy(Group0(line[Leftmost(p, line)])) >= Threshold(p)
                    /\ \A k \in 1..Len(fs) :
                            /\ fs[k].entropy = entropy(Group0(line[Leftmost(p, line)]))
                            /\ Thresholded(p) => fs[k].entropy >= Threshold(p)

\* C5 happens: one thresholded match is reported with entropy exactly at the
\* threshold and another thresholded match is dropped by the gate.
C5_Witness ==
    /\ Called
    /\ \E k \in 1..Len(findings) : \E p \in 1..Len(PATTERNS) :
        /\ findings[k].rule_id = PATTERNS[p].id
        /\ Thresholded(p)
        /\ findings[k].entropy = Threshold(p)
    /\ \E i \in 1..Len(text) : \E p \in 1..Len(PATTERNS) :
        /\ ~Suppressed(text[i])
        /\ Occs(p, text[i]) # {}
        /\ FindingsOfRule(i + offset, p) = <<>>

\* C6: for the generic key/value patterns the gate is the entropy of the captured
\* value (group 1): a finding is emitted iff that entropy is at least the threshold.
C6_GateOnCapturedValue ==
    Called =>
        \A i \in 1..Len(text) : \A p \in 1..Len(PATTERNS) :
            (~Suppressed(text[i]) /\ Thresholded(p) /\ Occs(p, text[i]) # {}) =>
                ((FindingsOfRule(i + offset, p) # <<>>) <=>
                    entropy(text[i][Leftmost(p, text[i])].val) >= Threshold(p))

\* C7: at most one finding per line and pattern, decided by the leftmost match
\* alone: when the leftmost match fails the gate nothing is emitted for the pattern
\* on that line, whatever a later occurrence would do.
C7_FirstMatchOnly ==
    Called =>
        \A i \in 1..Len(text) : \A p \in 1..Len(PATTERNS) :
            LET fs == FindingsOfRule(i + offset, p)
                line == text[i]
            IN  /\ Len(fs) <= 1
                /\ (/\ Occs(p, line) # {}
                    /\ Thresholded(p)
                    /\ entropy(Group0(line[Leftmost(p, line)])) < Threshold(p))
                        => fs = <<>>
                /\ \A k \in 1..Len(fs) :
                        fs[k].secret = _truncate(Group0(line[Leftmost(p, line)]))

\* C7 happens: a line whose leftmost match fails the gate and whose later match
\* would pass it, scanned with no finding; and a line with two matches of one
\* pattern that yields one finding.
C7_Witness ==
    /\ Called
    /\ \E i \in 1..Len(text) : \E p \in 1..Len(PATTERNS) :
        /\ ~Suppressed(text[i])
        /\ Thresholded(p)
        /\ \E a, b \in Occs(p, text[i]) :
            /\ a < b
            /\ entropy(Group0(text[i][a])) < Threshold(p)
            /\ entropy(Group0(text[i][b])) >= Threshold(p)
        /\ FindingsOfRule(i + offset, p) = <<>>
    /\ \E i \in 1..Len(text) : \E p \in 1..Len(PATTERNS) :
        /\ Cardinality(Occs(p, text[i])) > 1
        /\ Len(FindingsOfRule(i + offset, p)) = 1

\* the position in the registry of the pattern that produced the finding
RuleIndex(f) == CHOOSE p \in 1..Len(PATTERNS) : PATTERNS[p].id = f.rule_id

\* pattern p has a match on the line that the scanner reports
Reportable(p, line) ==
    /\ ~Suppressed(line)
    /\ Occs(p, line) # {}
    /\ Thresholded(p) => entropy(Group0(line[Leftmost(p, line)])) >= Threshold(p)

\* C19: lines are numbered from 1 and a finding carries the 1-based index of
\* its line plus line_offset; the list is ordered by ascending line and, within
\* a line, by the position of the pattern in the registry.
C19_LineNumbersAndOrder ==
    Called =>
        /\ \A k \in 1..Len(findings) :
            LET f == findings[k]
                i == f.line - offset
            IN  /\ i \in 1..Len(text)
                /\ Reportable(RuleIndex(f), text[i])
                /\ f.secret = _truncate(Group0(text[i][Leftmost(RuleIndex(f), text[i])]))
        /\ \A i \in 1..Len(text) : \A p \in 1..Len(PATTERNS) :
            Reportable(p, text[i]) =>
                \E k \in 1..Len(findings) :
                    findings[k].line = i + offset /\ findings[k].rule_id = PATTERNS[p].id
        /\ \A k, l \in 1..Len(findings) :
            k < l =>
                \/ findings[k].line < findings[l].line
                \/ /\ findings[k].line = findings[l].line
                   /\ RuleIndex(findings[k]) < RuleIndex(findings[l])

\* C19 happens: scan_text with a non-zero line_offset on a text whose first line
\* has one reportable match and whose second line has two, of different patterns
\* and different from the first line's.
C19_Witness ==
    /\ op = "scan_text"
    /\ offset > 0
    /\ Len(text) >= 2
    /\ Len(findings) = 3
    /\ findings[1].line = 1 + offset
    /\ findings[2].line = 2 + offset
    /\ findings[3].line = 2 + offset
    /\ RuleIndex(findings[2]) < RuleIndex(findings[3])
    /\ findings[1].rule_id \notin {findings[2].rule_id, findings[3].rule_id}

----------------------------------------------------------------------------
(* Properties of scan_path (checked under Spec) *)

PathCalled == op = "scan_path"

\* scan_path returned a list
Returned == PathCalled /\ outcome.raised = "none"

SeqSet(s) == {s[i] : i \in 1..Len(s)}
Fingerprints(s) == {s[i].fingerprint : i \in 1..Len(s)}

\* the external findings that are the first of the external list to carry their
\* fingerprint
FirstOfFingerprint(ext) ==
    {ext[i] : i \in {k \in 1..Len(ext) :
                        \A j \in 1..(k - 1) : ext[j].fingerprint # ext[k].fingerprint}}

\* C1 as amended: the result holds exactly the native findings and, for every
\* fingerprint carried by an external finding and by no native finding, the first
\* external finding that carries it; with no external findings it is the native
\* list.
C1_MergeFirstPerFingerprint ==
    Returned =>
        LET N == outcome.native
            E == outcome.external
            R == outcome.value
        IN  /\ SeqSet(R) = SeqSet(N) \cup
                    {e \in FirstOfFingerprint(E) : e.fingerprint \notin Fingerprints(N)}
            /\ Len(R) = Len(N) + Cardinality(Fingerprints(E) \ Fingerprints(N))
            /\ (E = <<>> \/ ~world.gl.installed) => R = N

\* C1 as stated: the result holds exactly the native findings and every external
\* finding whose fingerprint is the fingerprint of no native finding.
C1_MergeEveryExternal ==
    Returned =>
        LET N == outcome.native
            E == outcome.external
            R == outcome.value
        IN  /\ SeqSet(R) = SeqSet(N) \cup
                    {e \in SeqSet(E) : e.fingerprint \notin Fingerprints(N)}
            /\ (E = <<>> \/ ~world.gl.installed) => R = N

\* C1 happens: native findings merged with two different external findings that
\* share a fingerprint no native finding has; only the first is appended.
C1_Witness ==
    /\ Returned
    /\ outcome.native # <<>>
    /\ Len(outcome.external) = 2
    /\ outcome.external[1] # outcome.external[2]
    /\ outcome.external[1].fingerprint = outcome.external[2].fingerprint
    /\ outcome.external[1].fingerprint \notin Fingerprints(outcome.native)
    /\ outcome.value = Append(outcome.native, outcome.external[1])

\* the places of the external list whose finding is appended: its fingerprint
\* is on no native finding and on no earlier external finding
AppendedPlaces(N, E) ==
    {k \in 1..Len(E) :
        /\ E[k].fingerprint \notin Fingerprints(N)
        /\ \A j \in 1..(k - 1) : E[j].fingerprint # E[k].fingerprint}

\* C25: the merged list is the native list, unchanged and in order, followed
\* by the external findings whose fingerprint was not seen before (on a native
\* or an earlier external finding), in the order of the external list; so no
\* fingerprint appended from the external list occurs twice in the result.
C25_MergeOrder ==
    Returned =>
        LET N == outcome.native
            E == outcome.external
            R == outcome.value
            K == AppendedPlaces(N, E)
        IN  /\ Len(R) = Len(N) + Cardinality(K)
            /\ SubSeq(R, 1, Len(N)) = N
            /\ \A k \in K : R[Len(N) + Cardinality({j \in K : j <= k})] = E[k]
            /\ \A k \in K :
                    Cardinality({i \in 1..Len(R) : R[i].fingerprint = E[k].fingerprint}) = 1

\* C25 happens: two external findings with new, different fingerprints follow
\* the native findings in the order of the report.
C25_Witness ==
    /\ Returned
    /\ outcome.native # <<>>
    /\ Len(outcome.external) = 2
    /\ outcome.external[1].fingerprint # outcome.external[2].fingerprint
    /\ AppendedPlaces(outcome.native, outcome.external) = {1, 2}
    /\ outcome.value = outcome.native \o outcome.external

\* the gitleaks run is absent or fails: binary missing, process not started, error
\* text on stderr, report missing, empty, or not the expected JSON
GitleaksFails(gl) ==
    \/ ~gl.installed
    \/ ~gl.installed_again
    \/ gl.run = "oserror"
    \/ gl.stderr_error
    \/ gl.report \in {"missing", "empty", "invalid", "object"}

\* C2: whenever gitleaks is absent or its run fails in any way, scan_path (of an
\* existing path) raises nothing and returns exactly the native findings.
C2_GitleaksFailureIsNotFatal ==
    (PathCalled /\ world.target # "missing" /\ GitleaksFails(world.gl)) =>
        /\ outcome.raised = "none"
        /\ outcome.value = outcome.native

\* neither engine has anything to report: the native run finds nothing and gitleaks
\* is absent, fails with an error scan_path catches, or reports nothing
NothingToReport ==
    /\ NativeRun(world, flags) = <<>>
    /\ \/ ~world.gl.installed
       \/ /\ _scan_with_gitleaks(world.gl).raised \in {"none", "ScannerError", "GitleaksNotFound"}
          /\ _scan_with_gitleaks(world.gl).findings = <<>>

C8_FingerprintOfOwnFields ==
    Returned =>
        \A k \in 1..Len(outcome.value) :
            LET f == outcome.value[k] IN
            f.fingerprint = f.file \o Colon \o f.rule_id \o Colon \o str(f.line)

\* the complete text matched for a native finding: the leftmost occurrence of its
\* rule on its line of its file
NativeMatched(f) ==
    LET e == CHOOSE x \in SeqSet(world.tree) : PathStr(world.root \o x.rel) = f.file
        p == CHOOSE q \in 1..Len(PATTERNS) : PATTERNS[q].id = f.rule_id
        line == e.lines[f.line]
    IN  Group0(line[Leftmost(p, line)])

\* secret is a leading part of m, an ellipsis, then a trailing part of m
MiddleElided(secret, m) ==
    \E a, b \in 1..Len(m) :
        /\ a + b < Len(m)
        /\ secret = SubSeq(m, 1, a) \o Ellipsis \o SubSeq(m, Len(m) - b + 1, Len(m))

\* C9: the secret of every finding of either engine is at most 20 characters long
\* and, for a match longer than 20 characters, middle-elided.
C9_SecretAtMost20MiddleElided ==
    PathCalled =>
        /\ \A k \in 1..Len(outcome.native) :
            LET f == outcome.native[k] IN
            /\ Len(f.secret) <= 20
            /\ Len(NativeMatched(f)) > 20 => MiddleElided(f.secret, NativeMatched(f))
        /\ \A k \in 1..Len(outcome.external) :
            LET f == outcome.external[k]
                m == Get(world.gl.items[k], "Secret", <<>>)
            IN  /\ Len(f.secret) <= 20
                /\ Len(m) > 20 => MiddleElided(f.secret, m)

\* C10: the secret of a finding is never the complete matched text.
C10_SecretNeverWhole ==
    PathCalled =>
        /\ \A k \in 1..Len(outcome.native) :
            outcome.native[k].secret # NativeMatched(outcome.native[k])
        /\ \A k \in 1..Len(outcome.external) :
            "Secret" \in DOMAIN world.gl.items[k] =>
                outcome.external[k].secret # world.gl.items[k].Secret

----------------------------------------------------------------------------
(* Properties of scan_directory (checked under SpecDir) *)

DirCalled == op = "scan_directory"

\* the files of the findings of a list
FilesOf(fs) == {fs[i].file : i \in 1..Len(fs)}

\* the relative path lies inside a directory named in the skip set
InsideSkippedDir(rel) == \E i \in 1..(Len(rel) - 1) : rel[i] \in _SKIP_DIRS

\* the file at the relative path holds a secret the line scanner reports
HoldsSecret(w, rel) ==
    /\ \E k \in 1..Len(w.tree) : w.tree[k].rel = rel
    /\ LET e == Lookup(w.tree, rel) IN
        /\ e.is_file
        /\ scan_text(e.lines, PathStr(w.root \o rel), 0) # <<>>

\* C11: in tree-walk mode and in staged mode, scan_directory returns no finding
\* whose file lies inside a directory named .git, node_modules, __pycache__,
\* .venv, venv or .env at any depth under the root.
C11_NoFindingInsideSkippedDir ==
    DirCalled =>
        \A k \in 1..Len(world.tree) :
            InsideSkippedDir(world.tree[k].rel) =>
                PathStr(world.root \o world.tree[k].rel) \notin FilesOf(ret.value)

\* C11 happens: a staged scan that reports findings while the staging area also
\* lists a readable file with a secret two levels down, inside node_modules.
C11_Witness ==
    /\ DirCalled
    /\ call.staged_only
    /\ world.git.status = "ok"
    /\ ret.value # <<>>
    /\ \E i \in 1..Len(world.git.names) :
        LET rel == world.git.names[i] IN
        /\ Len(rel) > 2
        /\ InsideSkippedDir(rel)
        /\ HoldsSecret(world, rel)
        /\ PathStr(world.root \o rel) \notin FilesOf(ret.value)

\* the findings returned for the file at the relative path, in the order returned
FindingsFor(rel) ==
    SelectSeq(ret.value, LAMBDA f : f.file = PathStr(world.root \o rel))

\* the paths of the events of one kind
PathsOf(ev) == {x.path : x \in {y \in SeqSet(ret.events) : y.ev = ev}}

\* the relative path matches a pattern of the root's .gitignore
GitIgnored(rel) == _matches_gitignore(rel, _parse_gitignore(world.gitignore))

\* a tree walk that honours .gitignore unless no_git is set
TreeWalk ==
    /\ DirCalled
    /\ world.target = "dir"
    /\ ~call.staged_only
    /\ call.respect_gitignore

StagedScan ==
    /\ DirCalled
    /\ world.target = "dir"
    /\ call.staged_only

\* the name begins with the components of pre and goes on
HasPrefix(n, pre) == Len(n) > Len(pre) /\ SubSeq(n, 1, Len(pre)) = pre

\* the files the staging area lists that lie under the root, as paths relative
\* to the root
StagedUnderRoot(w) ==
    {SubSeq(n, Len(w.git.prefix) + 1, Len(n)) :
        n \in {m \in SeqSet(w.git.names) : HasPrefix(m, w.git.prefix)}}

\* the file at the relative path is a readable regular file that passes the
\* skip-directory, extension and null-byte filters
PassesFilters(w, rel) ==
    LET e == Lookup(w.tree, rel) IN
    /\ e.is_file
    /\ ~_should_skip_path(w.root \o rel)
    /\ ~_is_binary_file(e)
    /\ e.read_ok

\* C15: with staged_only true the files scanned are exactly the files the
\* staging area lists that pass the skip-directory and binary filters, whatever
\* the .gitignore says.
C15_StagedSetExactly ==
    (StagedScan /\ world.git.status = "ok") =>
        PathsOf("scan_text") =
            {world.root \o rel :
                rel \in {r \in StagedUnderRoot(world) : PassesFilters(world, r)}}

\* C16: in staged mode, when git cannot be started or exits non-zero,
\* scan_directory raises nothing, returns the empty list, and opens no file.
C16_StagedFailsOpen ==
    (StagedScan /\ world.git.status \in {"oserror", "nonzero"}) =>
        /\ ret.raised = "none"
        /\ ret.value = <<>>
        /\ ret.events = <<>>

\* C16 happens: git exits non-zero after listing a file that holds a reportable
\* secret and passes the filters; nothing is returned and nothing opened.
C16_Witness ==
    /\ StagedScan
    /\ world.git.status = "nonzero"
    /\ \E i \in 1..Len(world.git.names) :
        /\ PassesFilters(world, world.git.names[i])
        /\ HoldsSecret(world, world.git.names[i])
    /\ ret.value = <<>>
    /\ ret.events = <<>>

\* C17: with no_git true the result is that of the full tree walk without
\* .gitignore filtering, for every value of staged_only.
C17_NoGitIgnoresGit ==
    (DirCalled /\ world.target = "dir" /\ call.no_git) =>
        ret.value = WalkFrom(world, <<>>, 1)

\* the entry cannot be scanned: it is not a regular file, its probe fails, it has
\* a null byte among its first 8192 bytes, or its text cannot be read
Failing(e) ==
    \/ ~e.is_file
    \/ ~e.probe_ok
    \/ (e.nul_at # 0 /\ e.nul_at <= 8192)
    \/ ~e.read_ok

RECURSIVE FindingsOfRemaining(_, _, _)
\* the findings of the entries that do not fail, from the k-th entry on
FindingsOfRemaining(root, entries, k) ==
    IF k > Len(entries) THEN <<>>
    ELSE (IF Failing(entries[k]) THEN <<>>
          ELSE scan_text(entries[k].lines, PathStr(root \o entries[k].rel), 0))
            \o FindingsOfRemaining(root, entries, k + 1)

\* the entries the walk hands to scan_file, in walk order
EligibleWalk ==
    SelectSeq(world.tree,
        LAMBDA e : /\ e.is_file
                   /\ ~_should_skip_path(world.root \o e.rel)
                   /\ ~(call.respect_gitignore /\ ~call.no_git /\ GitIgnored(e.rel)))

\* the entries the staged loop hands to scan_file, in the order git lists them
EligibleStaged ==
    LET names == SelectSeq(world.git.names,
                    LAMBDA n : ~_should_skip_path(world.root \o n))
    IN  [k \in 1..Len(names) |-> Lookup(world.tree, names[k])]

HasSkippedComponent(rel) == \E i \in 1..Len(rel) : rel[i] \in _SKIP_DIRS

\* a regular file of the tree that is not binary, by extension or by content
TextFile(e) ==
    /\ e.is_file
    /\ lower(suffix(e.rel[Len(e.rel)])) \notin _BINARY_EXTENSIONS
    /\ e.probe_ok
    /\ e.nul_at = 0 \/ e.nul_at > _probe_size

\* the file at the relative path was read for scanning
Scanned(rel) == world.root \o rel \in PathsOf("read_text")

\* C26: in a tree walk, a file under the root that is not binary and not
\* git-ignored is scanned exactly when no component of its path relative to
\* the root is in the skip set, whatever the directories above the root are
\* called.
C26_SkipByRelativeComponents ==
    (DirCalled /\ world.target = "dir" /\ ~call.staged_only) =>
        \A k \in 1..Len(world.tree) :
            LET e == world.tree[k] IN
            (/\ TextFile(e)
             /\ (call.respect_gitignore /\ ~call.no_git) => ~GitIgnored(e.rel))
                => (Scanned(e.rel) <=> ~HasSkippedComponent(e.rel))

----------------------------------------------------------------------------
(* Properties of scan_file (checked under SpecFile) *)

FileCalled == op = "scan_file"

\* C12: scan_file returns no finding for a file with a null byte among its
\* first 8192 bytes and for a file whose probe fails; a file whose first null
\* byte lies after the first 8192 bytes is read and scanned as text.
C12_BinaryProbe ==
    FileCalled =>
        LET e == call.entry IN
        /\ (e.nul_at # 0 /\ e.nul_at <= 8192) => ret.value = <<>>
        /\ ~e.probe_ok => ret.value = <<>>
        /\ (e.is_file /\ e.probe_ok /\ e.nul_at > 8192) =>
                /\ Event("read_text", call.path) \in SeqSet(ret.events)
                /\ e.read_ok => ret.value = scan_text(e.lines, PathStr(call.path), 0)

\* C12 happens: a readable regular file with a reportable secret and a null byte
\* as the last byte of the probed chunk yields nothing.
C12_Witness ==
    /\ FileCalled
    /\ call.entry.is_file
    /\ call.entry.probe_ok
    /\ call.entry.read_ok
    /\ call.entry.nul_at = 8192
    /\ scan_text(call.entry.lines, PathStr(call.path), 0) # <<>>
    /\ ret.value = <<>>

----------------------------------------------------------------------------
(* Properties of _matches_gitignore (checked under SpecMatch) *)

MatchCalled == op = "_matches_gitignore"

EndsInSlash(p) == Len(p) > 0 /\ p[Len(p)] = "/"

\* p without the slashes it ends in
SlashStripped(p) ==
    SubSeq(p, 1, CHOOSE n \in 0..Len(p) :
                    /\ \A i \in (n + 1)..Len(p) : p[i] = "/"
                    /\ n = 0 \/ p[n] # "/")

\* the pattern matches the relative path the way the specification describes
PatternMatches(p, rel) ==
    \/ /\ EndsInSlash(p)
       /\ \E i \in 1..Len(rel) : fnmatch(rel[i], SlashStripped(p))
    \/ /\ ~EndsInSlash(p)
       /\ \/ fnmatch(JoinParts(rel), p)
          \/ fnmatch(rel[Len(rel)], p)

\* C14: _matches_gitignore is true iff some pattern ending in '/' matches, with
\* its trailing slash stripped, some component of the path, or some pattern not
\* ending in '/' matches the whole relative path or the bare file name; it is
\* false for the empty pattern list.
C14_MatchesGitignore ==
    MatchCalled =>
        /\ ret.value <=>
                \E k \in 1..Len(call.patterns) : PatternMatches(call.patterns[k], call.rel_path)
        /\ call.patterns = <<>> => ~ret.value

\* C14 happens: the first pattern of the list does not match, the second is a
\* directory pattern matching a component that is neither the first nor the
\* last of the path, and the answer is true.
C14_Witness ==
    /\ MatchCalled
    /\ Len(call.patterns) = 2
    /\ ~PatternMatches(call.patterns[1], call.rel_path)
    /\ EndsInSlash(call.patterns[2])
    /\ \E i \in 2..(Len(call.rel_path) - 1) :
            fnmatch(call.rel_path[i], SlashStripped(call.patterns[2]))
    /\ ret.value

----------------------------------------------------------------------------
(* Properties of filter_findings (checked under SpecFilter) *)

FilterCalled == op = "filter_findings"

\* the bare file name of a path
BareName(s) ==
    IF \E i \in 1..Len(s) : s[i] = "/"
    THEN SubSeq(s, (CHOOSE i \in 1..Len(s) :
                        s[i] = "/" /\ \A j \in (i + 1)..Len(s) : s[j] # "/") + 1, Len(s))
    ELSE s

\* one of the conditions that remove a finding holds
Removed(f) ==
    \/ f.fingerprint \in call.ignores
    \/ /\ call.config # None
       /\ LET c == call.config[1] IN
            \/ f.fingerprint \in c.allowlist_fingerprints
            \/ f.rule_id \in SeqSet(c.allowlist_rules)
            \/ \E g \in SeqSet(c.allowlist_paths) :
                    fnmatch(f.file, g) \/ fnmatch(BareName(f.file), g)

\* r holds the elements of s at the positions of keep, in the order of s
IsSelection(r, s, keep) ==
    /\ Len(r) = Cardinality(keep)
    /\ \E g \in [1..Len(r) -> keep] :
        /\ \A a, b \in 1..Len(r) : a < b => g[a] < g[b]
        /\ \A a \in 1..Len(r) : r[a] = s[g[a]]

\* C20: filter_findings returns, in input order, exactly the findings whose
\* fingerprint is neither in the ignore set nor in config.allowlist_fingerprints,
\* whose rule_id is not in config.allowlist_rules and whose file (full path or
\* bare file name) matches no glob of config.allowlist_paths; without a config
\* only the ignore set applies, and with neither everything passes.
C20_FilterFindings ==
    FilterCalled =>
        /\ IsSelection(ret.value, call.findings,
                {i \in 1..Len(call.findings) : ~Removed(call.findings[i])})
        /\ call.config = None =>
                IsSelection(ret.value, call.findings,
                    {i \in 1..Len(call.findings) :
                        call.findings[i].fingerprint \notin call.ignores})
        /\ (call.config = None /\ call.ignores = {}) => ret.value = call.findings

\* C20 happens: of two findings the first is removed because a glob matches its
\* bare file name though not its full path, and the second passes.
C20_Witness ==
    /\ FilterCalled
    /\ Len(call.findings) = 2
    /\ call.config # None
    /\ LET f == call.findings[1]
           c == call.config[1]
       IN  /\ f.fingerprint \notin call.ignores \cup c.allowlist_fingerprints
           /\ f.rule_id \notin SeqSet(c.allowlist_rules)
           /\ \A g \in SeqSet(c.allowlist_paths) : ~fnmatch(f.file, g)
           /\ \E g \in SeqSet(c.allowlist_paths) : fnmatch(BareName(f.file), g)
    /\ ret.value = <<call.findings[2]>>

----------------------------------------------------------------------------
(* Properties of the scan command (checked under SpecCli) *)

CliCalled == op = "scan"

\* the fingerprints .gitshieldignore lists
Ignored == load_ignore_list(call.ignore_file)

\* the findings of the scan that .gitshieldignore does not list
Remaining == SelectSeq(outcome.value, LAMBDA f : f.fingerprint \notin Ignored)

\* C21: the scan command exits 2 exactly when the scan raised ScannerError,
\* and otherwise 1 exactly when a finding remains after the ignore filter and
\* 0 exactly when none remains, whatever the output format.
C21_ExitStatus ==
    CliCalled =>
        /\ ret.exit \in {0, 1, 2}
        /\ ret.exit = 2 <=> outcome.raised = "ScannerError"
        /\ ret.exit = 1 <=> (outcome.raised # "ScannerError" /\ Remaining # <<>>)
        /\ ret.exit = 0 <=> (outcome.raised # "ScannerError" /\ Remaining = <<>>)

\* the allowlists of .gitshield.toml
Allowlist == load_config(call.toml)

\* the finding is allow-listed by .gitshield.toml: by rule id, by fingerprint
\* or by a glob of its path
Allowlisted(f) ==
    \/ \E k \in 1..Len(Allowlist.allowlist_rules) : Allowlist.allowlist_rules[k] = f.rule_id
    \/ f.fingerprint \in Allowlist.allowlist_fingerprints
    \/ _matches_any_glob(f.file, Allowlist.allowlist_paths)

\* C30: a finding allow-listed by .gitshield.toml (rule id, fingerprint or path
\* glob) is not reported by the scan command, and the command exits 1 only
\* when a finding that is not allow-listed remains.
C30_TomlAllowlistApplies ==
    (CliCalled /\ outcome.raised = "none") =>
        /\ \A i \in 1..Len(ret.printed) : ~Allowlisted(ret.printed[i])
        /\ ret.exit = 1 => \E i \in 1..Len(Remaining) : ~Allowlisted(Remaining[i])

----------------------------------------------------------------------------
(* Properties of the assistant hook (checked under SpecHook) *)

HandleCalled == op = "handle_hook"

\* the members of the call's input and of its tool_input
InputMembers == call.input_data.members
ToolName == Get(InputMembers, "tool_name", "")
ToolInput == Get(InputMembers, "tool_input", Object(<<>>))
InputMember(key) == Get(ToolInput.members, key, <<>>)

\* the path and the text a Write or Edit carries
HookPath == IF "file_path" \in DOMAIN ToolInput.members THEN InputMember("file_path")
            ELSE InputMember("path")
HookContent == IF InputMember("content") # <<>> THEN InputMember("content")
               ELSE InputMember("new_string")

HasFinding(t) == scan_content(t, <<"x">>) # <<>>
HasCriticalOrHigh(t) ==
    \E i \in 1..Len(scan_content(t, <<"x">>)) :
        scan_content(t, <<"x">>)[i].severity \in {"critical", "high"}

\* C22: a Write or Edit is blocked exactly when its path is not allow-listed,
\* its content (or new_string) is not empty and the scan of it yields a
\* finding on a sensitive path or a critical or high finding; a Bash is
\* blocked exactly when the scan of its command yields a critical or high
\* finding; everything else is approved.
C22_HookDecision ==
    (HandleCalled /\ ret.raised = "none") =>
        /\ ret.result.result \in {"approve", "block"}
        /\ ToolName \in {"Write", "Edit"} =>
            (ret.result.result = "block" <=>
                /\ ~_is_allowed_path(HookPath)
                /\ HookContent # <<>>
                /\ \/ HasFinding(HookContent) /\ _is_sensitive_path(HookPath)
                   \/ HasCriticalOrHigh(HookContent))
        /\ ToolName = "Bash" =>
            (ret.result.result = "block" <=> HasCriticalOrHigh(InputMember("command")))
        /\ ToolName \notin {"Write", "Edit", "Bash"} => ret.result.result = "approve"

\* a Write to an allow-listed and sensitive path, holding a critical finding,
\* is approved
C22_Witness ==
    /\ HandleCalled
    /\ ToolName = "Write"
    /\ _is_sensitive_path(HookPath)
    /\ HasCriticalOrHigh(HookContent)
    /\ ret.result.result = "approve"

MainCalled == op = "main"

\* the tool name main's input carries, "" when it carries none
StdinToolName ==
    IF call.stdin.value.type = "object"
    THEN Get(call.stdin.value.members, "tool_name", "") ELSE ""

\* handling the parsed input raises: the input is no object, or the tool is
\* one the hook scans and its tool_input is no object
HandlingRaises ==
    \/ call.stdin.value.type # "object"
    \/ /\ StdinToolName \in {"Write", "Edit", "Bash"}
       /\ Get(call.stdin.value.members, "tool_input", Object(<<>>)).type # "object"

\* the cases the hook must let through
FailOpenCase ==
    \/ call.stdin.read = "error"
    \/ call.stdin.parse = "error"
    \/ HandlingRaises
    \/ StdinToolName \notin {"Write", "Edit", "Bash"}

\* C23: the hook entry point prints exactly one decision and exits 0, and the
\* decision is approve when stdin cannot be read or parsed, when the tool name
\* is missing or unknown, when the input is empty and when handling raises.
C23_HookFailsOpen ==
    MainCalled =>
        /\ Len(ret.printed) = 1
        /\ ret.exit = 0
        /\ FailOpenCase => ret.printed[1] = Approve

\* handling a Write raised and the hook approved
C23_Witness ==
    /\ MainCalled
    /\ call.stdin.parse = "ok"
    /\ StdinToolName = "Write"
    /\ HandlingRaises
    /\ ret.printed = <<Approve>>
    /\ ret.exit = 0

----------------------------------------------------------------------------
(* Properties of the processes scan_path waits for (checked under SpecProc) *)

\* the scan waits for a process to exit
Waiting == op \in {"wait_git", "wait_gitleaks"}

\* the process the scan waits for exits at some time
ProcessExits ==
    IF op = "wait_git" THEN call.git_exits ELSE call.gitleaks_exits

\* C24: a scan never waits without end: whenever it waits for an external
\* process, the process exits or the wait is bounded by a timeout.
C24_EveryWaitIsBounded ==
    Waiting => (ProcessExits \/ ret.timeout # None)

----------------------------------------------------------------------------
(* Properties of the pre-commit hook commands (checked under SpecGitHook) *)

\* the hook file holds a line that invokes gitshield
InvokesGitshield(hook) ==
    /\ hook # None
    /\ \E k \in 1..Len(split(hook[1])) :
            startswith(strip(split(hook[1])[k]), <<"g","i","t","s","h","i","e","l","d"," ">>)

\* C27: hook install followed by hook uninstall restores the pre-commit hook:
\* where there was none the file is removed, where there was one that did not
\* mention gitshield its content is as before, and in both cases no line that
\* invokes gitshield remains.
C27_InstallUninstallRestores ==
    (/\ ret.history = <<"install", "uninstall">>
     /\ call.hooks_dir
     /\ call.initial = None \/ ~Contains(call.initial[1], <<"g","i","t","s","h","i","e","l","d">>))
        => /\ ret.hook = call.initial
           /\ ~InvokesGitshield(ret.hook)

----------------------------------------------------------------------------
(* Properties of the assistant settings commands (checked under SpecClaude) *)

\* the PreToolUse groups of a settings file
PreToolUse(file) ==
    IF file.kind # "ok" THEN <<>>
    ELSE Get(Get(file.settings, "hooks", <<>>), "PreToolUse", <<>>)

RECURSIVE EntriesFrom(_, _)
\* the hook entries of the groups, in order, from the k-th group on
EntriesFrom(groups, k) ==
    IF k > Len(groups) THEN <<>>
    ELSE Get(groups[k], "hooks", <<>>) \o EntriesFrom(groups, k + 1)

IsGitShieldEntry(h) == Contains(Get(h, "command", <<>>), <<"g","i","t","s","h","i","e","l","d">>)

\* the GitShield entries and the other entries of the PreToolUse hooks
GitShieldEntries(file) == SelectSeq(EntriesFrom(PreToolUse(file), 1), IsGitShieldEntry)
OtherEntries(file) ==
    SelectSeq(EntriesFrom(PreToolUse(file), 1), LAMBDA h : ~IsGitShieldEntry(h))

\* C28: after any sequence of install and uninstall the PreToolUse hooks hold
\* at most one GitShield entry, one after an install and none after an
\* uninstall, and the entries that are not GitShield's are those of the initial
\* settings, unchanged and in the same order.
C28_OneEntryOthersKept ==
    call.fn = "claude" =>
        /\ Len(GitShieldEntries(ret.file)) <= 1
        /\ (ret.history # <<>> /\ ret.history[Len(ret.history)] = "install")
                => Len(GitShieldEntries(ret.file)) = 1
        /\ (ret.history # <<>> /\ ret.history[Len(ret.history)] = "uninstall")
                => Len(GitShieldEntries(ret.file)) = 0
        /\ OtherEntries(ret.file) = OtherEntries(call.initial)

\* C28 happens: a second install in a row leaves one entry, after the hooks
\* the user had
C28_Witness ==
    /\ Len(ret.history) >= 2
    /\ ret.history[Len(ret.history)] = "install"
    /\ ret.history[Len(ret.history) - 1] = "install"
    /\ GitShieldEntries(call.initial) = <<>>
    /\ Len(OtherEntries(call.initial)) >= 2
    /\ Len(GitShieldEntries(ret.file)) = 1

----------------------------------------------------------------------------
(* Properties of the patrol (checked under SpecPatrol) *)

\* what a finding is about: the file in the repository, the line and the rule
Subject(f) == [file |-> f.file, line |-> f.line, rule_id |-> f.rule_id]
Subjects(fs) == {Subject(fs[i]) : i \in 1..Len(fs)}

\* C29: once a notification about a finding has been sent and recorded, no
\* later run over the unchanged repository notifies about that finding again.
C29_NotifiedOnce ==
    call.fn = "patrol" =>
        \A i \in 1..Len(ret.sent) : \A j \in (i + 1)..Len(ret.sent) :
            Subjects(ret.sent[i]) \cap Subjects(ret.sent[j]) = {}

====
